---------------------------- MODULE Spec2Model ----------------------------
(***************************************************************************)
(* PixelSociety: the tick-based simulation engine (pixel_society/agents.py, *)
(* tasks.py, events.py, world.py, simulation.py, mbti.py).                 *)
(*                                                                         *)
(* Python floats are modelled as fixed-point integers:                     *)
(*   traits          in tenths          (0.1   = 1,  range -10..10)        *)
(*   emotions        in hundredths      (0.01  = 1,  range 0..100)         *)
(*   skills          in hundredths      (0.01  = 1)                        *)
(*   closeness/trust in 1/10000         (0.1   = 1000)                     *)
(*   affinity        in thousandths     (0.1   = 100)                      *)
(*   task progress   in 1/10000         (0.2   = 2000)                     *)
(*   world metrics   in 1/1200000       (1.0   = 1200000), so that the     *)
(*                   population means over 1 to 6 agents are exact         *)
(*   resources       in whole units     (5.0   = 5)                        *)
(* Python dicts are functions whose DOMAIN is the key set; a dict whose    *)
(* iteration order matters is a sequence.  An operation that can raise     *)
(* returns a record with a field raised.                                   *)
(***************************************************************************)
EXTENDS Integers, Sequences, FiniteSets, TLC

VARIABLES
    world,             \* Simulation.world: the World object
    agents,            \* Simulation.agents: the registry, in insertion order
    scheduled_events,  \* Simulation.scheduled_events
    history,           \* Simulation.history
    seed,              \* Simulation.seed
    rng,               \* Simulation.random: the state of the seeded stream
    twin,              \* a second, independent Simulation instance
    ret,               \* the last call: its name, arguments and return value
    calls,             \* what is remembered of the calls made so far
    nops               \* number of calls made so far (bounds the exploration)

vars == <<world, agents, scheduled_events, history, seed, rng, twin, ret, calls, nops>>

(***************************************************************************)
(* Generic helpers                                                         *)
(***************************************************************************)
Max(a, b) == IF a >= b THEN a ELSE b
Min(a, b) == IF a <= b THEN a ELSE b
Abs(a) == IF a >= 0 THEN a ELSE -a

\* dict.get(key, default)
Get(d, k, default) == IF k \in DOMAIN d THEN d[k] ELSE default

\* d[key] = value
Put(d, k, v) == [x \in (DOMAIN d) \cup {k} |-> IF x = k THEN v ELSE d[x]]

EmptyDict == [x \in {} |-> 0]

RECURSIVE SetMax(_)
SetMax(S) ==
    LET x == CHOOSE y \in S : TRUE
    IN  IF S = {x} THEN x ELSE Max(x, SetMax(S \ {x}))

RECURSIVE SumSeq(_)
SumSeq(s) == IF s = <<>> THEN 0 ELSE Head(s) + SumSeq(Tail(s))

(***************************************************************************)
(* Scales of the fixed-point representation                                *)
(***************************************************************************)
TraitOne == 10
EmoOne == 100
RelOne == 10000
AffOne == 1000
ProgOne == 10000
WorldOne == 1200000

(***************************************************************************)
(* mbti.py                                                                 *)
(***************************************************************************)
TRAIT_KEYS ==
    {"sociability", "creativity", "organization", "empathy", "rationality", "ambition"}

Profile(s, c, o, e, r, a) ==
    [sociability |-> s, creativity |-> c, organization |-> o,
     empathy |-> e, rationality |-> r, ambition |-> a]

MBTI_PROFILES ==
    [INTJ |-> Profile(-2, 5, 4, -1, 6, 5),
     INFP |-> Profile(1, 6, -2, 7, -1, 2),
     ENTP |-> Profile(5, 7, -3, 1, 2, 4),
     ESTJ |-> Profile(2, -2, 7, -1, 4, 6),
     ESFP |-> Profile(7, 3, -3, 5, -2, 2),
     ISFJ |-> Profile(-1, -1, 6, 6, 1, -1),
     ENTJ |-> Profile(4, 2, 6, -2, 5, 8),
     ISTP |-> Profile(-2, 3, -1, -2, 4, 1)]

\* personality_for(code).trait_modifiers; codes are given in upper case
personality_for(code) ==
    IF code \in DOMAIN MBTI_PROFILES
    THEN MBTI_PROFILES[code]
    ELSE [k \in TRAIT_KEYS |-> 0]

(***************************************************************************)
(* agents.py: EmotionState, Relationship                                   *)
(***************************************************************************)
NewEmotion == [happiness |-> 50, stress |-> 20, energy |-> 70]

\* clamp with the upper bounds forgotten
ClampEmotionBelowOnly(e) ==
    [happiness |-> Max(0, e.happiness),
     stress |-> Max(0, e.stress),
     energy |-> Max(0, e.energy)]

\* EmotionState.clamp
ClampEmotion(e) ==
    [happiness |-> Max(0, Min(EmoOne, e.happiness)),
     stress |-> Max(0, Min(EmoOne, e.stress)),
     energy |-> Max(0, Min(EmoOne, e.energy))]

\* Relationship(other=other): the dataclass defaults
NewRelationship(other) ==
    [other |-> other, closeness |-> 1000, trust |-> 1000, sentiment |-> "neutral"]

\* the if/elif/else of Relationship.adjust
Sentiment(trust, closeness) ==
    IF trust > 7000 /\ closeness > 6000 THEN "ally"
    ELSE IF trust < 3000 /\ closeness < 3000 THEN "rival"
    ELSE "neutral"

\* Relationship.adjust(closeness=dc, trust=dt)
RelAdjust(rel, dc, dt) ==
    LET c == Max(0, Min(RelOne, rel.closeness + dc))
        t == Max(0, Min(RelOne, rel.trust + dt))
    IN  [other |-> rel.other, closeness |-> c, trust |-> t,
         sentiment |-> Sentiment(t, c)]

(***************************************************************************)
(* agents.py: Agent                                                        *)
(***************************************************************************)
\* Agent(name, mbti_code) with the dataclass defaults and __post_init__
NewAgent(name, code) ==
    [name |-> name,
     mbti_code |-> code,
     traits |-> personality_for(code),
     skills |-> EmptyDict,
     resources |-> [r \in {"money", "time"} |-> IF r = "money" THEN 100 ELSE 40],
     motivations |-> <<>>,
     values |-> <<>>,
     relationships |-> EmptyDict,
     tasks |-> <<>>,
     emotion |-> NewEmotion]

\* Agent.customize: overrides is a dict trait name -> delta
Customize(agent, overrides, motivations, values) ==
    LET keys == (DOMAIN overrides) \cap TRAIT_KEYS
        tr == [k \in (DOMAIN agent.traits) \cup keys |->
                 IF k \in keys
                 THEN Max(-TraitOne, Min(TraitOne, Get(agent.traits, k, 0) + overrides[k]))
                 ELSE agent.traits[k]]
    IN  [agent EXCEPT !.traits = tr,
                      !.motivations = @ \o motivations,
                      !.values = @ \o values]

\* Agent.get_relationship: returns the agent with the relationship present
GetRelationship(agent, other) ==
    IF other \notin DOMAIN agent.relationships
    THEN [agent EXCEPT !.relationships = Put(@, other, NewRelationship(other))]
    ELSE agent

\* Agent.influence_relationship; 0.1 * affinity (thousandths) is affinity in 1/10000
InfluenceRelationship(agent, other, affinity) ==
    LET a == GetRelationship(agent, other)
    IN  [a EXCEPT !.relationships[other] = RelAdjust(@, affinity, affinity)]

\* Agent.learn_skill(skill, effort): effort in tenths, the level in
\* hundredths; baseline 0.5 + 0.2 * creativity is 50 + 2 * creativity in
\* hundredths, and the efforts used are whole numbers, so the product is exact
LearnSkill(agent, skill, effort) ==
    LET baseline == 50 + 2 * Get(agent.traits, "creativity", 0)
        level == Get(agent.skills, skill, 0) + (effort * baseline) \div 10
    IN  [agent EXCEPT !.skills = Put(@, skill, Min(EmoOne, level))]

\* adjust_resources without the floor at 0
AdjustResourcesNoFloor(agent, dm, dt) ==
    LET r1 == Put(agent.resources, "money", Get(agent.resources, "money", 0) + dm)
        r2 == Put(r1, "time", Get(r1, "time", 0) + dt)
    IN  [agent EXCEPT !.resources = r2]

\* Agent.adjust_resources(money=dm, time=dt)
AdjustResources(agent, dm, dt) ==
    LET r1 == Put(agent.resources, "money", Max(0, Get(agent.resources, "money", 0) + dm))
        r2 == Put(r1, "time", Max(0, Get(r1, "time", 0) + dt))
    IN  [agent EXCEPT !.resources = r2]

\* Agent.adjust_emotion(happiness=dh, stress=ds, energy=de)
AdjustEmotion(agent, dh, ds, de) ==
    [agent EXCEPT !.emotion =
        ClampEmotion([happiness |-> @.happiness + dh,
                      stress |-> @.stress + ds,
                      energy |-> @.energy + de])]

\* Agent.assign_task
AssignTask(agent, task) == [agent EXCEPT !.tasks = Append(@, task)]


(***************************************************************************)
(* tasks.py                                                                *)
(***************************************************************************)
\* Task(name, description, ...): resources_required is a dict whose iteration
\* order decides which shortfall is reported, hence a sequence of pairs;
\* progress_function is "none" or the name of a supplied callable
NewTask(name, required_progress, difficulty, progress_function, resources_required) ==
    [name |-> name,
     required_progress |-> required_progress,
     difficulty |-> difficulty,
     progress_function |-> progress_function,
     resources_required |-> resources_required,
     completed |-> FALSE,
     progress |-> 0]

Requirement(resource, amount) == [resource |-> resource, amount |-> amount]

TaskFeedback(task_name, progress_delta, completed, message) ==
    [task_name |-> task_name, progress_delta |-> progress_delta,
     completed |-> completed, message |-> message]

\* format(delta, ".2f"): progress in 1/10000 rounded to hundredths
Format2(delta) == (delta + 50) \div 100

\* the f-strings and literals of Task.advance
MsgAlreadyCompleted == <<"Task already completed.">>
MsgInsufficient(resource, name) == <<"Insufficient", resource, "to progress", name>>
MsgProgressed(name, delta) == <<"Progressed", name, "by", Format2(delta)>>
MsgCompleted(name) == <<"Completed task", name>>

\* index of the first requirement the agent cannot meet, 0 if there is none
\* (the first loop of Task.advance)
FirstShortfall(agent, reqs) ==
    LET short == {i \in 1..Len(reqs) :
                    Get(agent.resources, reqs[i].resource, 0) < reqs[i].amount}
    IN  IF short = {} THEN 0 ELSE CHOOSE i \in short : \A j \in short : i <= j

\* agent.adjust_resources(**{resource: -amount}): the method takes only the
\* keywords money and time, any other name is a TypeError
DeductOne(agent, req) ==
    IF req.resource = "money"
    THEN [agent |-> AdjustResources(agent, -req.amount, 0), raised |-> FALSE]
    ELSE IF req.resource = "time"
    THEN [agent |-> AdjustResources(agent, 0, -req.amount), raised |-> FALSE]
    ELSE [agent |-> agent, raised |-> TRUE]

\* the second loop of Task.advance
RECURSIVE DeductAll(_, _)
DeductAll(agent, reqs) ==
    IF reqs = <<>> THEN [agent |-> agent, raised |-> FALSE]
    ELSE LET one == DeductOne(agent, Head(reqs))
         IN  IF one.raised THEN one ELSE DeductAll(one.agent, Tail(reqs))

\* the default branch with no bonus for an agent without skills
DefaultProgressNoBonus(agent) ==
    LET creativity == Get(agent.traits, "creativity", 0)
        organization == Get(agent.traits, "organization", 0)
        skill_bonus == IF DOMAIN agent.skills # {}
                       THEN SetMax({agent.skills[k] : k \in DOMAIN agent.skills})
                       ELSE 0
    IN  Max(500, 2000 + creativity * 100 + organization * 50 + skill_bonus * 20)

\* a default branch that also counts the agent's happiness
DefaultProgressMoody(agent) ==
    Max(500, 2000 + Get(agent.traits, "creativity", 0) * 100
             + Get(agent.traits, "organization", 0) * 50
             + agent.emotion.happiness * 10)

\* the default branch of Task.advance: 0.2 + creativity * 0.1
\* + organization * 0.05 + skill_bonus * 0.2, floored at 0.05
DefaultProgress(agent) ==
    LET creativity == Get(agent.traits, "creativity", 0)
        organization == Get(agent.traits, "organization", 0)
        skill_bonus == IF DOMAIN agent.skills # {}
                       THEN SetMax({agent.skills[k] : k \in DOMAIN agent.skills})
                       ELSE 10
    IN  Max(500, 2000 + creativity * 100 + organization * 50 + skill_bonus * 20)

\* self.progress_function(agent, world) for the supplied callables used here:
\*   "mood"     lambda agent, world: agent.emotion.happiness
\*   "backslide" lambda agent, world: -0.3
\*   "broken"   a callable that raises
CallProgressFunction(fn, agent, w) ==
    IF fn = "mood" THEN [delta |-> agent.emotion.happiness * 100, raised |-> FALSE]
    ELSE IF fn = "backslide" THEN [delta |-> -3000, raised |-> FALSE]
    ELSE [delta |-> 0, raised |-> TRUE]

\* delta /= max(0.5, self.difficulty); difficulty in tenths
ScaleByDifficulty(delta, difficulty) == (delta * 10) \div Max(5, difficulty)

\* A definition that uses a value several times takes it as a parameter, so
\* that the code's straight-line blocks are chains of small definitions.

\* the tail of Task.advance: self.progress += delta, the completion test, the
\* emotion change and the feedback; delta is already divided by the difficulty
AddProgress(task, agent, delta) ==
    IF task.progress + delta >= task.required_progress
    THEN [task |-> [task EXCEPT !.progress = @ + delta, !.completed = TRUE],
          agent |-> AdjustEmotion(agent, 10, -10, 0),
          raised |-> FALSE,
          fb |-> TaskFeedback(task.name, delta, TRUE, MsgCompleted(task.name))]
    ELSE [task |-> [task EXCEPT !.progress = @ + delta],
          agent |-> agent,
          raised |-> FALSE,
          fb |-> TaskFeedback(task.name, delta, FALSE, MsgProgressed(task.name, delta))]

\* the if/else of Task.advance that computes delta
ComputeDelta(task, agent, w) ==
    IF task.progress_function # "none"
    THEN CallProgressFunction(task.progress_function, agent, w)
    ELSE [delta |-> DefaultProgress(agent), raised |-> FALSE]

\* Task.advance once delta is computed (or the progress function has raised)
AfterDelta(task, agent, called) ==
    IF called.raised
    THEN [task |-> task, agent |-> agent, raised |-> TRUE,
          fb |-> TaskFeedback(task.name, 0, FALSE, <<>>)]
    ELSE AddProgress(task, agent, ScaleByDifficulty(called.delta, task.difficulty))

\* Task.advance once the resources are deducted (or the deduction has raised)
AfterPayment(task, paid, w) ==
    IF paid.raised
    THEN [task |-> task, agent |-> paid.agent, raised |-> TRUE,
          fb |-> TaskFeedback(task.name, 0, FALSE, <<>>)]
    ELSE AfterDelta(task, paid.agent, ComputeDelta(task, paid.agent, w))

\* check and deduction fused into one loop: on a shortfall the requirements
\* before it are already deducted
AdvancePendingFused(task, agent, w, short) ==
    IF short # 0
    THEN [task |-> task,
          agent |-> AdjustEmotion(
                        DeductAll(agent, SubSeq(task.resources_required, 1, short - 1)).agent,
                        0, 5, 0),
          raised |-> FALSE,
          fb |-> TaskFeedback(task.name, 0, FALSE,
                     MsgInsufficient(task.resources_required[short].resource, task.name))]
    ELSE AfterPayment(task, DeductAll(agent, task.resources_required), w)

\* a shortfall reported through the feedback alone, the agent left as it is
AdvancePendingNoStress(task, agent, w, short) ==
    IF short # 0
    THEN [task |-> task, agent |-> agent, raised |-> FALSE,
          fb |-> TaskFeedback(task.name, 0, FALSE,
                     MsgInsufficient(task.resources_required[short].resource, task.name))]
    ELSE AfterPayment(task, DeductAll(agent, task.resources_required), w)

\* Task.advance on a pending task; short is the first requirement not met
AdvancePending(task, agent, w, short) ==
    IF short # 0
    THEN [task |-> task, agent |-> AdjustEmotion(agent, 0, 5, 0), raised |-> FALSE,
          fb |-> TaskFeedback(task.name, 0, FALSE,
                     MsgInsufficient(task.resources_required[short].resource, task.name))]
    ELSE AfterPayment(task, DeductAll(agent, task.resources_required), w)

\* Task.advance without the early return for a completed task
TaskAdvanceAgain(task, agent, w) ==
    AdvancePending(task, agent, w, FirstShortfall(agent, task.resources_required))

\* Task.advance(agent, world): the task and the agent are mutated in place,
\* so both come back with the feedback
TaskAdvance(task, agent, w) ==
    IF task.completed
    THEN [task |-> task, agent |-> agent, raised |-> FALSE,
          fb |-> TaskFeedback(task.name, 0, TRUE, MsgAlreadyCompleted)]
    ELSE AdvancePending(task, agent, w, FirstShortfall(agent, task.resources_required))

(***************************************************************************)
(* agents.py: task processing and the per-tick update                      *)
(***************************************************************************)
\* the loop of Agent.advance_tasks from task i on; the tasks are mutated in
\* place, remaining holds the ones kept so far and feedback the results;
\* AdvanceStep is the loop body once task.advance has returned r
RECURSIVE AdvanceLoop(_, _, _, _, _), AdvanceStep(_, _, _, _, _, _)
\* the loop body keeping every task, completed or not
AdvanceStepKeepsAll(agent, w, i, remaining, feedback, r) ==
    AdvanceLoop([r.agent EXCEPT !.tasks[i] = r.task], w, i + 1,
                Append(remaining, r.task), Append(feedback, r.fb))

AdvanceStep(agent, w, i, remaining, feedback, r) ==
    IF r.raised
    THEN [agent |-> [r.agent EXCEPT !.tasks[i] = r.task],
          feedback |-> feedback, raised |-> TRUE]
    ELSE AdvanceLoop([r.agent EXCEPT !.tasks[i] = r.task], w, i + 1,
                     IF r.task.completed THEN remaining ELSE Append(remaining, r.task),
                     Append(feedback, r.fb))

AdvanceLoop(agent, w, i, remaining, feedback) ==
    IF i > Len(agent.tasks)
    THEN [agent |-> [agent EXCEPT !.tasks = remaining],
          feedback |-> feedback, raised |-> FALSE]
    ELSE AdvanceStep(agent, w, i, remaining, feedback,
                     TaskAdvance(agent.tasks[i], agent, w))

\* Agent.advance_tasks
AdvanceTasks(agent, w) == AdvanceLoop(agent, w, 1, <<>>, <<>>)

\* the decay loop of Agent.tick
DecayRelationships(agent) ==
    [agent EXCEPT !.relationships =
        [o \in DOMAIN @ |-> RelAdjust(@[o], -200, -100)]]

\* the mood adjustment with the test time <= 10
BaseMoodAtMostTen(agent) ==
    IF Get(agent.resources, "time", 0) <= 10
    THEN AdjustEmotion(agent, 0, 5, 0)
    ELSE AdjustEmotion(agent, 2, -2, 0)

\* a mood adjustment that also costs energy
BaseMoodTiring(agent) ==
    IF Get(agent.resources, "time", 0) < 10
    THEN AdjustEmotion(agent, 0, 5, -1)
    ELSE AdjustEmotion(agent, 2, -2, -1)

\* the mood adjustment of Agent.tick
BaseMood(agent) ==
    IF Get(agent.resources, "time", 0) < 10
    THEN AdjustEmotion(agent, 0, 5, 0)
    ELSE AdjustEmotion(agent, 2, -2, 0)

\* the end of Agent.tick: worked is what advance_tasks returned
AfterTasks(worked) ==
    IF worked.raised THEN worked
    ELSE [agent |-> DecayRelationships(worked.agent),
          feedback |-> worked.feedback, raised |-> FALSE]

\* Agent.tick without the regeneration of time
AgentTickNoRegeneration(agent, w) ==
    AfterTasks(AdvanceTasks(BaseMood(agent), w))

\* Agent.tick(world)
AgentTick(agent, w) ==
    AfterTasks(AdvanceTasks(AdjustResources(BaseMood(agent), 0, 5), w))

(***************************************************************************)
(* world.py                                                                *)
(***************************************************************************)
\* Region(name, resources, culture_focus)
NewRegion(name, resources, culture_focus) ==
    [name |-> name, resources |-> resources, culture_focus |-> culture_focus,
     population |-> 0]

\* World(name, economy, culture, stability)
NewWorld(economy, culture, stability) ==
    [economy |-> economy, culture |-> culture, stability |-> stability,
     regions |-> EmptyDict, agent_locations |-> EmptyDict,
     event_log |-> <<>>, tick_count |-> 0]

\* World.add_region
WorldAddRegion(w, region) == [w EXCEPT !.regions = Put(@, region.name, region)]

\* place_agent that ignores a region it does not know
PlaceAgentStrict(w, agent_name, region_name) ==
    IF region_name \in DOMAIN w.regions
    THEN [w EXCEPT !.agent_locations = Put(@, agent_name, region_name),
                   !.regions[region_name].population = @ + 1]
    ELSE w

\* World.place_agent
PlaceAgent(w, agent_name, region_name) ==
    LET located == [w EXCEPT !.agent_locations = Put(@, agent_name, region_name)]
    IN  IF region_name \in DOMAIN w.regions
        THEN [located EXCEPT !.regions[region_name].population = @ + 1]
        ELSE located

\* relocate_agent that does not leave the previous region
RelocateAgentNoLeave(w, agent_name, region_name) ==
    PlaceAgent(w, agent_name, region_name)

\* World.relocate_agent
RelocateAgent(w, agent_name, region_name) ==
    LET known == agent_name \in DOMAIN w.agent_locations
        previous == IF known THEN w.agent_locations[agent_name] ELSE ""
        left == IF known /\ previous # "" /\ previous \in DOMAIN w.regions
                THEN [w EXCEPT !.regions[previous].population = Max(0, @ - 1)]
                ELSE w
    IN  PlaceAgent(left, agent_name, region_name)

\* World.record_event: the entry "[Tick n] description"
RecordEvent(w, description) ==
    [w EXCEPT !.event_log = Append(@, <<"Tick", w.tick_count, description>>)]

\* adjust_global_state with the lower bounds forgotten
AdjustGlobalStateAboveOnly(w, de, dc, ds) ==
    [w EXCEPT !.economy = Min(WorldOne, @ + de),
              !.culture = Min(WorldOne, @ + dc),
              !.stability = Min(WorldOne, @ + ds)]

\* World.adjust_global_state(economy=de, culture=dc, stability=ds)
AdjustGlobalState(w, de, dc, ds) ==
    [w EXCEPT !.economy = Max(0, Min(WorldOne, @ + de)),
              !.culture = Max(0, Min(WorldOne, @ + dc)),
              !.stability = Max(0, Min(WorldOne, @ + ds))]

\* tick with the counter advanced by two
WorldTickTwice(w) == [w EXCEPT !.tick_count = @ + 2]

\* World.tick
WorldTick(w) == [w EXCEPT !.tick_count = @ + 1]

(***************************************************************************)
(* events.py                                                               *)
(***************************************************************************)
\* Event(name, description, world_effect, agent_effects): the effects are
\* callables, named here; world_effect "none" is None
NewEvent(name, description, world_effect, agent_effects) ==
    [name |-> name, description |-> description,
     world_effect |-> world_effect, agent_effects |-> agent_effects]

\* self.world_effect(world) for the supplied callables used here:
\*   "festival_effect"  demo.py: world.adjust_global_state(culture=0.1, stability=0.05)
\*   "slump_effect"     world.adjust_global_state(economy=-0.2)
\*   anything else      a callable that raises
CallWorldEffect(effect, w) ==
    IF effect = "festival_effect"
    THEN [world |-> AdjustGlobalState(w, 0, 120000, 60000), raised |-> FALSE]
    ELSE IF effect = "slump_effect"
    THEN [world |-> AdjustGlobalState(w, -240000, 0, 0), raised |-> FALSE]
    ELSE [world |-> w, raised |-> TRUE]

\* effect(agent, world) for the supplied callables used here:
\*   "festival_agent_effect"  demo.py: agent.adjust_emotion(happiness=0.1, stress=-0.05)
\*   "overtime_effect"        agent.adjust_resources(time=-30.0)
\*   "grant_effect"           agent.adjust_resources(time=10.0)
\*   "civic_effect"           agent.adjust_emotion(happiness=world.culture - 0.5)
\*   anything else            a callable that raises
CallAgentEffect(effect, agent, w) ==
    IF effect = "festival_agent_effect"
    THEN [agent |-> AdjustEmotion(agent, 10, -5, 0), raised |-> FALSE]
    ELSE IF effect = "civic_effect"
    THEN [agent |-> AdjustEmotion(agent, (w.culture * EmoOne) \div WorldOne - 50, 0, 0),
          raised |-> FALSE]
    ELSE IF effect = "overtime_effect"
    THEN [agent |-> AdjustResources(agent, 0, -30), raised |-> FALSE]
    ELSE IF effect = "grant_effect"
    THEN [agent |-> AdjustResources(agent, 0, 10), raised |-> FALSE]
    ELSE [agent |-> agent, raised |-> TRUE]

\* the inner loop of Event.apply: one effect over the agents from index i on;
\* EffectStep is the loop body once the effect has returned r
RECURSIVE EffectOverAgents(_, _, _, _), EffectStep(_, _, _, _, _)
EffectStep(effect, ags, w, i, r) ==
    IF r.raised THEN [agents |-> ags, raised |-> TRUE]
    ELSE EffectOverAgents(effect, [ags EXCEPT ![i] = r.agent], w, i + 1)

EffectOverAgents(effect, ags, w, i) ==
    IF i > Len(ags) THEN [agents |-> ags, raised |-> FALSE]
    ELSE EffectStep(effect, ags, w, i, CallAgentEffect(effect, ags[i], w))

\* the outer loop of Event.apply
RECURSIVE AgentEffectsLoop(_, _, _), AgentEffectsStep(_, _, _)
AgentEffectsStep(effects, w, r) ==
    IF r.raised THEN r ELSE AgentEffectsLoop(Tail(effects), r.agents, w)

AgentEffectsLoop(effects, ags, w) ==
    IF effects = <<>> THEN [agents |-> ags, raised |-> FALSE]
    ELSE AgentEffectsStep(effects, w, EffectOverAgents(Head(effects), ags, w, 1))

\* the world effect of Event.apply, if any
ApplyWorldEffect(event, w) ==
    IF event.world_effect # "none"
    THEN CallWorldEffect(event.world_effect, w)
    ELSE [world |-> w, raised |-> FALSE]

\* the end of Event.apply: ae is what the agent effects returned
AfterAgentEffects(event, w, ae) ==
    IF ae.raised THEN [world |-> w, agents |-> ae.agents, raised |-> TRUE]
    ELSE [world |-> RecordEvent(w, event.description),
          agents |-> ae.agents, raised |-> FALSE]

\* Event.apply after the world effect: we is what it returned
AfterWorldEffect(event, ags, we) ==
    IF we.raised THEN [world |-> we.world, agents |-> ags, raised |-> TRUE]
    ELSE AfterAgentEffects(event, we.world,
                           AgentEffectsLoop(event.agent_effects, ags, we.world))

\* apply with the agent effects run before the world effect
EventApplyAgentsFirst(event, w, ags) ==
    AfterAgentEffects(event, ApplyWorldEffect(event, w).world,
                      AgentEffectsLoop(event.agent_effects, ags, w))

\* Event.apply(world, agents)
EventApply(event, w, ags) == AfterWorldEffect(event, ags, ApplyWorldEffect(event, w))

(***************************************************************************)
(* simulation.py                                                           *)
(***************************************************************************)
ScheduledEvent(tick, event) == [tick |-> tick, event |-> event]

SimulationResult(tick, feedback, events) ==
    [tick |-> tick, feedback |-> feedback, events |-> events]

\* random.Random: a deterministic stream; the generator is abstracted to a
\* linear congruential one
RngModulus == 65537
RngSeeded(s0) == (s0 * 7919 + 13) % RngModulus
RngStep(state) == (state * 75 + 74) % RngModulus
RandBelow(state, n) == (state \div 16) % n

\* random.shuffle(x): for i in reversed(range(1, len(x))): j = randbelow(i + 1);
\* x[i], x[j] = x[j], x[i]   (i is 1-based here)
RECURSIVE ShuffleFrom(_, _, _)
ShuffleFrom(x, state, i) ==
    IF i < 2 THEN [list |-> x, rng |-> state]
    ELSE LET s == RngStep(state)
             j == RandBelow(s, i) + 1
         IN  ShuffleFrom([x EXCEPT ![i] = x[j], ![j] = x[i]], s, i - 1)

Shuffle(x, state) == ShuffleFrom(x, state, Len(x))

\* seed or random.randint(0, 99999): drawn is the value randint returns;
\* the argument is <<>> for None and <<n>> for the integer n
EffectiveSeed(seed_arg, drawn) ==
    IF seed_arg = <<>> THEN drawn
    ELSE IF seed_arg[1] = 0 THEN drawn
    ELSE seed_arg[1]

\* Simulation(world, seed=seed_arg)
NewSimulation(w, seed_arg, drawn) ==
    [world |-> w,
     seed |-> EffectiveSeed(seed_arg, drawn),
     rng |-> RngSeeded(EffectiveSeed(seed_arg, drawn)),
     agents |-> <<>>,
     scheduled_events |-> <<>>,
     history |-> <<>>]

\* position of the agent called name in the registry, 0 if absent
IndexOf(ags, name) ==
    LET hit == {i \in 1..Len(ags) : ags[i].name = name}
    IN  IF hit = {} THEN 0 ELSE CHOOSE i \in hit : TRUE

\* Simulation.add_agent(agent, region=region); region "" is None
AddAgent(sim, agent, region) ==
    LET at == IndexOf(sim.agents, agent.name)
        registered == IF at = 0 THEN Append(sim.agents, agent)
                      ELSE [sim.agents EXCEPT ![at] = agent]
    IN  [sim EXCEPT !.agents = registered,
                    !.world = IF region # "" THEN PlaceAgent(@, agent.name, region)
                              ELSE @]

\* Simulation.add_region(name, resources=resources, culture_focus=culture_focus);
\* resources <<>> is None or an empty dict
AddRegion(sim, name, resources, culture_focus) ==
    LET given == IF resources = <<>> THEN [food |-> 50, energy |-> 30] ELSE resources
    IN  [sim EXCEPT !.world = WorldAddRegion(@, NewRegion(name, given, culture_focus))]

\* schedule_event with the trigger tick one too late
ScheduleEventLate(sim, event, in_ticks) ==
    [sim EXCEPT !.scheduled_events =
        Append(@, ScheduledEvent(sim.world.tick_count + in_ticks + 1, event))]

\* Simulation.schedule_event(event, in_ticks=in_ticks)
ScheduleEvent(sim, event, in_ticks) ==
    [sim EXCEPT !.scheduled_events =
        Append(@, ScheduledEvent(sim.world.tick_count + in_ticks, event))]

\* Simulation._handle_interaction(a, b): returns both agents
\* the sum with every weight ten times as large
RawAffinityWide(a, b) ==
    LET ds == Abs(Get(a.traits, "sociability", 0) - Get(b.traits, "sociability", 0))
        de == Abs(Get(a.traits, "empathy", 0) - Get(b.traits, "empathy", 0))
        do == Abs(Get(a.traits, "organization", 0) - Get(b.traits, "organization", 0))
    IN  100 + 100 * (TraitOne - ds) + 50 * (TraitOne - de) - 50 * do

\* the affinity of _handle_interaction before its clamp, in thousandths
RawAffinity(a, b) ==
    LET ds == Abs(Get(a.traits, "sociability", 0) - Get(b.traits, "sociability", 0))
        de == Abs(Get(a.traits, "empathy", 0) - Get(b.traits, "empathy", 0))
        do == Abs(Get(a.traits, "organization", 0) - Get(b.traits, "organization", 0))
    IN  100 + 10 * (TraitOne - ds) + 5 * (TraitOne - de) - 5 * do

Affinity(a, b) == Max(-AffOne, Min(AffOne, RawAffinity(a, b)))

\* the interaction with the emotion change given to a only
InteractOneSided(a, b, affinity) ==
    IF affinity > 0
    THEN [a |-> AdjustEmotion(InfluenceRelationship(a, b.name, affinity), 2, 0, 0),
          b |-> InfluenceRelationship(b, a.name, affinity)]
    ELSE [a |-> AdjustEmotion(InfluenceRelationship(a, b.name, affinity), 0, 2, 0),
          b |-> InfluenceRelationship(b, a.name, affinity)]

\* Simulation._handle_interaction once the affinity is computed
Interact(a, b, affinity) ==
    IF affinity > 0
    THEN [a |-> AdjustEmotion(InfluenceRelationship(a, b.name, affinity), 2, 0, 0),
          b |-> AdjustEmotion(InfluenceRelationship(b, a.name, affinity), 2, 0, 0)]
    ELSE [a |-> AdjustEmotion(InfluenceRelationship(a, b.name, affinity), 0, 2, 0),
          b |-> AdjustEmotion(InfluenceRelationship(b, a.name, affinity), 0, 2, 0)]

HandleInteraction(a, b) == Interact(a, b, Affinity(a, b))

\* the generator of Simulation._select_pairs over the shuffled list
PairsOf(sh) ==
    [pairs |-> [k \in 1..(Len(sh.list) \div 2) |-> <<sh.list[2 * k - 1], sh.list[2 * k]>>],
     rng |-> sh.rng]

\* Simulation._select_pairs: the pairs (as registry positions) and the stream
SelectPairs(ags, state) == PairsOf(Shuffle([i \in 1..Len(ags) |-> i], state))

\* the loop "for a, b in self._select_pairs(): self._handle_interaction(a, b)";
\* InteractStep is the loop body once the interaction has returned r
RECURSIVE InteractAll(_, _), InteractStep(_, _, _)
InteractStep(ags, pairs, r) ==
    InteractAll([ags EXCEPT ![Head(pairs)[1]] = r.a, ![Head(pairs)[2]] = r.b],
                Tail(pairs))

InteractAll(ags, pairs) ==
    IF pairs = <<>> THEN ags
    ELSE InteractStep(ags, pairs,
                      HandleInteraction(ags[Head(pairs)[1]], ags[Head(pairs)[2]]))

\* the deltas of Simulation._apply_world_feedback from the three sums
FeedbackDeltas(w, n, ambition, happiness, stress) ==
    AdjustGlobalState(w,
                      (2400 * ambition) \div n - (120 * stress) \div n,
                      (120 * happiness) \div n,
                      (240 * happiness) \div n - (180 * stress) \div n)

\* the world feedback with an empty population counted as one agent of
\* default emotion instead of being skipped
ApplyWorldFeedbackNoSkip(w, ags) ==
    IF Len(ags) = 0 THEN FeedbackDeltas(w, 1, 0, 50, 20)
    ELSE FeedbackDeltas(w, Len(ags),
             SumSeq([i \in 1..Len(ags) |-> Get(ags[i].traits, "ambition", 0)]),
             SumSeq([i \in 1..Len(ags) |-> ags[i].emotion.happiness]),
             SumSeq([i \in 1..Len(ags) |-> ags[i].emotion.stress]))

\* Simulation._apply_world_feedback
ApplyWorldFeedback(w, ags) ==
    IF Len(ags) = 0 THEN w
    ELSE FeedbackDeltas(w, Len(ags),
             SumSeq([i \in 1..Len(ags) |-> Get(ags[i].traits, "ambition", 0)]),
             SumSeq([i \in 1..Len(ags) |-> ags[i].emotion.happiness]),
             SumSeq([i \in 1..Len(ags) |-> ags[i].emotion.stress]))

\* the loop of Simulation._trigger_events from entry i on; TriggerStep is the
\* branch of a due entry once event.apply has returned r
RECURSIVE TriggerLoop(_, _, _, _, _, _), TriggerStep(_, _, _, _, _)
\* the loop body with the triggered description put in front
TriggerStepReversed(scheduled, i, triggered, pending, r) ==
    TriggerLoop(scheduled, r.world, r.agents, i + 1,
                <<scheduled[i].event.description>> \o triggered, pending)

TriggerStep(scheduled, i, triggered, pending, r) ==
    IF r.raised
    THEN [world |-> r.world, agents |-> r.agents, triggered |-> triggered,
          scheduled_events |-> scheduled, raised |-> TRUE]
    ELSE TriggerLoop(scheduled, r.world, r.agents, i + 1,
                     Append(triggered, scheduled[i].event.description), pending)

TriggerLoop(scheduled, w, ags, i, triggered, pending) ==
    IF i > Len(scheduled)
    THEN [world |-> w, agents |-> ags, triggered |-> triggered,
          scheduled_events |-> pending, raised |-> FALSE]
    ELSE IF scheduled[i].tick <= w.tick_count
    THEN TriggerStep(scheduled, i, triggered, pending,
                     EventApply(scheduled[i].event, w, ags))
    ELSE TriggerLoop(scheduled, w, ags, i + 1, triggered, Append(pending, scheduled[i]))

\* Simulation._trigger_events
TriggerEvents(scheduled, w, ags) == TriggerLoop(scheduled, w, ags, 1, <<>>, <<>>)

\* [fb.message for fb in task_feedback]
Messages(task_feedback) == [i \in 1..Len(task_feedback) |-> task_feedback[i].message]

\* the per-agent loop of Simulation.tick from agent i on; TickAgentsStep is
\* the loop body once agent.tick has returned r
RECURSIVE TickAgents(_, _, _, _), TickAgentsStep(_, _, _, _, _)
TickAgentsStep(ags, w, i, feedback, r) ==
    IF r.raised
    THEN [agents |-> [ags EXCEPT ![i] = r.agent], feedback |-> feedback, raised |-> TRUE]
    ELSE TickAgents([ags EXCEPT ![i] = r.agent], w, i + 1,
                    Put(feedback, ags[i].name, Messages(r.feedback)))

TickAgents(ags, w, i, feedback) ==
    IF i > Len(ags) THEN [agents |-> ags, feedback |-> feedback, raised |-> FALSE]
    ELSE TickAgentsStep(ags, w, i, feedback, AgentTick(ags[i], w))

\* the end of Simulation.tick: the world feedback, the result and the history;
\* met are the agents after the interactions, state the stream after the shuffle
FinishTick(sim, ev, feedback, met, state, result) ==
    [sim |-> [sim EXCEPT !.world = ApplyWorldFeedback(ev.world, met),
                         !.agents = met,
                         !.rng = state,
                         !.scheduled_events = ev.scheduled_events,
                         !.history = Append(@, result)],
     result |-> result, raised |-> FALSE]

\* the social pass with the world feedback taken from the agents as they are
\* before the interactions
SocialPassFeedbackFirst(sim, ev, ag, sel) ==
    [FinishTick(sim, ev, ag.feedback, InteractAll(ag.agents, sel.pairs), sel.rng,
                SimulationResult(ev.world.tick_count, ag.feedback, ev.triggered))
     EXCEPT !.sim.world = ApplyWorldFeedback(ev.world, ag.agents)]

\* the social pass of Simulation.tick: sel is what _select_pairs yields
SocialPass(sim, ev, ag, sel) ==
    FinishTick(sim, ev, ag.feedback, InteractAll(ag.agents, sel.pairs), sel.rng,
               SimulationResult(ev.world.tick_count, ag.feedback, ev.triggered))

\* Simulation.tick after the per-agent loop: ag is what the loop returned
AfterAgents(sim, ev, ag) ==
    IF ag.raised
    THEN [sim |-> [sim EXCEPT !.world = ev.world, !.agents = ag.agents,
                              !.scheduled_events = ev.scheduled_events],
          result |-> <<>>, raised |-> TRUE]
    ELSE SocialPass(sim, ev, ag, SelectPairs(ag.agents, sim.rng))

\* Simulation.tick after _trigger_events: ev is what it returned
AfterEvents(sim, ev) ==
    IF ev.raised
    THEN [sim |-> [sim EXCEPT !.world = ev.world, !.agents = ev.agents],
          result |-> <<>>, raised |-> TRUE]
    ELSE AfterAgents(sim, ev, TickAgents(ev.agents, ev.world, 1, EmptyDict))

\* Simulation.tick
SimTick(sim) ==
    AfterEvents(sim, TriggerEvents(sim.scheduled_events, WorldTick(sim.world), sim.agents))

\* the comprehension of Simulation.run from the tick that has returned r on;
\* the results put in front of the list instead of at its end
RECURSIVE RunLoop(_, _, _), RunStep(_, _, _)
RunStepReversed(steps, results, r) ==
    RunLoop(r.sim, steps - 1, <<r.result>> \o results)

\* one iteration of the comprehension once tick has returned r
RunStep(steps, results, r) ==
    IF r.raised THEN [sim |-> r.sim, result |-> <<>>, raised |-> TRUE]
    ELSE RunLoop(r.sim, steps - 1, Append(results, r.result))

\* [self.tick() for _ in range(steps)] with steps iterations to go
RunLoop(sim, steps, results) ==
    IF steps <= 0 THEN [sim |-> sim, result |-> results, raised |-> FALSE]
    ELSE RunStep(steps, results, SimTick(sim))

\* Simulation.run(steps)
Run(sim, steps) == RunLoop(sim, steps, <<>>)

(***************************************************************************)
(* Scenario data: the agents, tasks, events and regions the calls draw from *)
(***************************************************************************)
MaxTick == 3
MaxSched == 2
MaxOps == 2
MaxSeed == 3

\* demo.py, populate_demo_agents (shortened goals so that tasks complete
\* within MaxTick ticks)
Aurora ==
    AssignTask(
        Customize(NewAgent("Aurora", "INFP"),
                  [creativity |-> 3, empathy |-> 2], <<"Inspire community">>,
                  <<"Harmony", "Art">>),
        NewTask("Community Garden", 5000, 10, "none", <<>>))

Dex ==
    AssignTask(AssignTask(AssignTask(
            Customize(NewAgent("Dex", "ESTJ"),
                      [organization |-> 3, ambition |-> 2], <<"Grow wealth">>,
                      <<"Efficiency", "Order">>),
            NewTask("Supply Chain", 4000, 20, "none", <<Requirement("time", 8)>>)),
        NewTask("Audit", 2000, 10, "none",
                <<Requirement("money", 60), Requirement("time", 6)>>)),
        NewTask("Inventory", 3 * ProgOne, 10, "none", <<>>))

Nova ==
    AssignTask(NewAgent("Nova", "XXXX"),
               NewTask("Ethical AI Protocol", 20000, 10, "mood", <<Requirement("time", 6)>>))

\* the agents, in the order in which populate_demo_agents adds them
AgentCatalogue == <<Aurora, Dex, Nova>>

\* an agent of low ambition and no task
Isla == NewAgent("Isla", "ISFJ")

Festival ==
    NewEvent("Harvest Festival", "A joyful harvest festival", "festival_effect",
             <<"festival_agent_effect">>)

Crunch ==
    NewEvent("Crunch", "Everyone works overtime", "none", <<"overtime_effect">>)

EventCatalogue == {Festival, Crunch}

RegionNames == {"Metropolis"}

\* the in_ticks offsets handed to schedule_event
Offsets == {0, 1, 2}

\* the deltas handed to adjust_global_state: small, and far out of range
GlobalDeltas ==
    {<<-3 * WorldOne, 5 * WorldOne, 0>>,
     <<5 * WorldOne, 0, -2 * WorldOne>>,
     <<-120000, 240000, 600000>>}

(***************************************************************************)
(* The calls made on one Simulation                                        *)
(***************************************************************************)
SimNow ==
    [world |-> world, seed |-> seed, rng |-> rng, agents |-> agents,
     scheduled_events |-> scheduled_events, history |-> history]

Install(sim) ==
    /\ world' = sim.world
    /\ seed' = sim.seed
    /\ rng' = sim.rng
    /\ agents' = sim.agents
    /\ scheduled_events' = sim.scheduled_events
    /\ history' = sim.history

InitSim(sim) ==
    /\ world = sim.world
    /\ seed = sim.seed
    /\ rng = sim.rng
    /\ agents = sim.agents
    /\ scheduled_events = sim.scheduled_events
    /\ history = sim.history

NoCall == [op |-> "none"]

\* a call on the simulation has returned r: r.sim is the simulation after it
Returned(op, r) ==
    /\ Install(r.sim)
    /\ ret' = [op |-> op, value |-> r.result, raised |-> r.raised]

\* Simulation(World("w"), seed=s)
Init ==
    /\ \E seed_arg \in {<<>>, <<1>>} :
       \E drawn \in {MaxSeed} :
          InitSim(NewSimulation(NewWorld(WorldOne \div 2, WorldOne \div 2, WorldOne \div 2),
                                seed_arg, drawn))
    /\ twin = <<>>
    /\ ret = NoCall
    /\ calls = <<>>
    /\ nops = 0

AddAgentCall ==
    /\ Len(agents) < Len(AgentCatalogue)
    /\ Install(AddAgent(SimNow, AgentCatalogue[Len(agents) + 1], ""))
    /\ ret' = [op |-> "add_agent"]
    /\ UNCHANGED <<twin, calls, nops>>

ScheduleEventCall ==
    /\ Len(calls) < MaxSched
    /\ \E event \in EventCatalogue :
       \E in_ticks \in Offsets :
          /\ Install(ScheduleEvent(SimNow, event, in_ticks))
          /\ calls' = Append(calls, [description |-> event.description,
                                     at |-> world.tick_count, in_ticks |-> in_ticks])
    /\ ret' = [op |-> "schedule_event"]
    /\ UNCHANGED <<twin, nops>>

TickCall ==
    /\ world.tick_count < MaxTick
    /\ Returned("tick", SimTick(SimNow))
    /\ UNCHANGED <<twin, calls, nops>>

Next ==
    \/ AddAgentCall
    \/ ScheduleEventCall
    \/ TickCall

Spec == Init /\ [][Next]_vars

(***************************************************************************)
(* Scheduled events                                                        *)
(***************************************************************************)
\* the tick whose result lists an event scheduled by call c: max(t + 1, t + k)
FireTick(c) == Max(c.at + 1, c.at + c.in_ticks)

\* how often d occurs in the sequence s
Occurrences(d, s) == Cardinality({i \in 1..Len(s) : s[i] = d})

\* the schedule_event calls for description d that fire on tick t
CallsFiring(d, t) ==
    {i \in 1..Len(calls) : calls[i].description = d /\ FireTick(calls[i]) = t}

Descriptions == {e.description : e \in EventCatalogue}

\* C1: an event scheduled with in_ticks = k while tick_count = t is listed in
\* the result of tick max(t + 1, t + k), once per scheduling call, and in no
\* other result; every tick up to tick_count has its result; and the events
\* still scheduled are exactly those whose tick is yet to come.
C1_FiresExactlyOnce ==
    /\ Len(history) = world.tick_count
    /\ \A n \in 1..Len(history) :
          /\ history[n].tick = n
          /\ \A d \in Descriptions :
                Occurrences(d, history[n].events) = Cardinality(CallsFiring(d, n))
    /\ Len(scheduled_events) =
          Cardinality({i \in 1..Len(calls) : FireTick(calls[i]) > world.tick_count})
    /\ \A i \in 1..Len(scheduled_events) :
          \E j \in 1..Len(calls) :
                /\ calls[j].description = scheduled_events[i].event.description
                /\ calls[j].at + calls[j].in_ticks = scheduled_events[i].tick
                /\ FireTick(calls[j]) > world.tick_count

\* C1 witness: an event scheduled with in_ticks = 0 and one scheduled with
\* in_ticks = 2 have both fired, on different ticks, and nothing is scheduled.
C1_Witness ==
    /\ Len(calls) = 2
    /\ calls[1].in_ticks = 0
    /\ calls[2].in_ticks = 2
    /\ scheduled_events = <<>>
    /\ Len(history) >= FireTick(calls[2])
    /\ Occurrences(calls[1].description, history[calls[1].at + 1].events) >= 1
    /\ Occurrences(calls[2].description, history[calls[2].at + 2].events) >= 1

DueAt(scheduled, t) == SelectSeq(scheduled, LAMBDA e : e.tick <= t)
NotDueAt(scheduled, t) == SelectSeq(scheduled, LAMBDA e : e.tick > t)

\* C3: a tick applies exactly the scheduled events whose trigger tick is at most
\* the new tick_count, in scheduling order (the event log grows by their
\* entries in that order), lists them in that order in its result, and keeps
\* the others scheduled in their relative order.
C3_DueEventsInOrder ==
    [][ret'.op = "tick" =>
        LET due == DueAt(scheduled_events, world'.tick_count)
        IN  /\ ret'.value.events = [i \in 1..Len(due) |-> due[i].event.description]
            /\ world'.event_log = world.event_log \o
                  [i \in 1..Len(due) |->
                      <<"Tick", world'.tick_count, due[i].event.description>>]
            /\ scheduled_events' = NotDueAt(scheduled_events, world'.tick_count)]_vars

\* C3 witness: one tick has fired two different events that were scheduled
\* with different offsets at different times.
C3_Witness ==
    /\ ret.op = "tick"
    /\ Len(ret.value.events) = 2
    /\ ret.value.events[1] # ret.value.events[2]
    /\ Len(calls) = 2
    /\ calls[1].in_ticks # calls[2].in_ticks
    /\ calls[1].at # calls[2].at

(***************************************************************************)
(* Two independent instances given the same constructor argument and the   *)
(* same calls                                                              *)
(***************************************************************************)
\* the seed arguments handed to Simulation(world, seed=...)
SeedArgs == {<<>>, <<0>>, <<1>>, <<2>>}

InitTwin ==
    /\ \E seed_arg \in SeedArgs :
       \E drawn \in 0..MaxSeed :
       \E drawn2 \in 0..MaxSeed :
          /\ InitSim(NewSimulation(NewWorld(WorldOne \div 2, WorldOne \div 2, WorldOne \div 2),
                                   seed_arg, drawn))
          /\ twin = NewSimulation(NewWorld(WorldOne \div 2, WorldOne \div 2, WorldOne \div 2),
                                  seed_arg, drawn2)
          /\ calls = <<[op |-> "Simulation", seed |-> seed_arg]>>
    /\ ret = NoCall
    /\ nops = 0

TwinAddAgent ==
    /\ Len(agents) < Len(AgentCatalogue)
    /\ Install(AddAgent(SimNow, AgentCatalogue[Len(agents) + 1], ""))
    /\ twin' = AddAgent(twin, AgentCatalogue[Len(agents) + 1], "")
    /\ ret' = [op |-> "add_agent"]
    /\ UNCHANGED <<calls, nops>>

TwinScheduleEvent ==
    /\ nops < MaxOps
    /\ \E in_ticks \in Offsets :
          /\ Install(ScheduleEvent(SimNow, Festival, in_ticks))
          /\ twin' = ScheduleEvent(twin, Festival, in_ticks)
    /\ ret' = [op |-> "schedule_event"]
    /\ nops' = nops + 1
    /\ UNCHANGED calls

\* one step of run(N) on both
TwinTick ==
    /\ world.tick_count < MaxTick
    /\ Returned("tick", SimTick(SimNow))
    /\ twin' = SimTick(twin).sim
    /\ UNCHANGED <<calls, nops>>

NextTwin ==
    \/ TwinAddAgent
    \/ TwinScheduleEvent
    \/ TwinTick

SpecTwin == InitTwin /\ [][NextTwin]_vars

\* C2: two instances constructed with the same integer seed and given the same
\* calls have produced the same sequence of results.
C2_SameSeedSameResults ==
    calls[1].seed # <<>> => history = twin.history

(***************************************************************************)
(* Task.advance called directly on the one task of one agent               *)
(***************************************************************************)
MaxCalls == 11

\* Agent(name, code, resources=pool)
WithResources(agent, pool) == [agent EXCEPT !.resources = pool]

TaskAgents ==
    {NewAgent("Neutral", "XXXX"),
     WithResources(NewAgent("Tired", "INTJ"), [money |-> 100, time |-> 5]),
     WithResources(Customize(NewAgent("Forager", "ESTJ"), [organization |-> 3], <<>>, <<>>),
                   [money |-> 25, time |-> 40, food |-> 10])}

TaskCatalogue ==
    {NewTask("Plain", 2 * ProgOne, 10, "none", <<>>),
     NewTask("Timed", 5000, 10, "none", <<Requirement("time", 8)>>),
     NewTask("Costly", ProgOne, 20, "none",
             <<Requirement("money", 60), Requirement("time", 8)>>),
     NewTask("Mood", ProgOne, 0, "mood", <<Requirement("time", 20)>>),
     NewTask("Slip", ProgOne, 10, "backslide", <<>>),
     NewTask("Forage", 5000, 10, "none",
             <<Requirement("money", 10), Requirement("food", 5)>>)}

\* the deltas handed to adjust_resources
ResourceDeltas == {<<-1000, -1000>>, <<50, 6>>}

InitTask ==
    /\ \E agent \in TaskAgents :
       \E task \in TaskCatalogue :
          InitSim([NewSimulation(NewWorld(WorldOne \div 2, WorldOne \div 2, WorldOne \div 2),
                                 <<1>>, 0)
                   EXCEPT !.agents = <<AssignTask(agent, task)>>])
    /\ twin = <<>>
    /\ ret = NoCall
    /\ calls = 0
    /\ nops = 0

\* agents[1].tasks[1].advance(agents[1], world); calls counts these calls
AdvanceCall ==
    /\ calls < MaxCalls
    /\ LET r == TaskAdvance(agents[1].tasks[1], agents[1], world)
       IN  /\ agents' = <<[r.agent EXCEPT !.tasks[1] = r.task]>>
           /\ ret' = [op |-> "advance", value |-> r.fb, raised |-> r.raised]
    /\ calls' = calls + 1
    /\ UNCHANGED <<world, scheduled_events, history, seed, rng, twin, nops>>

\* agents[1].adjust_resources(money=dm, time=dt)
AdjustResourcesCall ==
    /\ nops < MaxOps
    /\ \E d \in ResourceDeltas :
          agents' = <<AdjustResources(agents[1], d[1], d[2])>>
    /\ ret' = [op |-> "adjust_resources"]
    /\ nops' = nops + 1
    /\ UNCHANGED <<world, scheduled_events, history, seed, rng, twin, calls>>

NextTask ==
    \/ AdvanceCall
    \/ AdjustResourcesCall

SpecTask == InitTask /\ [][NextTask]_vars

\* the requirements of task the agent cannot meet
Shortfalls(agent, task) ==
    {i \in 1..Len(task.resources_required) :
        LET req == task.resources_required[i]
        IN  IF req.resource \in DOMAIN agent.resources
            THEN agent.resources[req.resource] < req.amount
            ELSE 0 < req.amount}

\* C4: advance on a pending task whose agent lacks some required resource
\* deducts nothing, leaves progress and the completed flag alone, does not
\* raise, and returns a non-completed feedback with zero delta whose message
\* names a missing resource.
C4_ShortfallDeductsNothing ==
    [][(ret'.op = "advance"
        /\ ~agents[1].tasks[1].completed
        /\ Shortfalls(agents[1], agents[1].tasks[1]) # {}) =>
       /\ agents'[1].resources = agents[1].resources
       /\ agents'[1].tasks[1].progress = agents[1].tasks[1].progress
       /\ agents'[1].tasks[1].completed = agents[1].tasks[1].completed
       /\ ~ret'.raised
       /\ ~ret'.value.completed
       /\ ret'.value.progress_delta = 0
       /\ ret'.value.message[1] = "Insufficient"
       /\ \E i \in Shortfalls(agents[1], agents[1].tasks[1]) :
             ret'.value.message[2] = agents[1].tasks[1].resources_required[i].resource]_vars

\* C4 witness: advance has reported a shortfall of time on a task whose money
\* requirement, checked first, the agent could pay.
C4_Witness ==
    /\ ret.op = "advance"
    /\ ret.value.message = MsgInsufficient("time", "Costly")
    /\ agents[1].tasks[1].resources_required[1] = Requirement("money", 60)
    /\ agents[1].resources.money >= 60

\* C5: a completed task stays completed, and advance on it returns the
\* "already completed" feedback with zero delta and changes neither the task
\* nor the agent.
C5_CompletedIsFinal ==
    [][agents[1].tasks[1].completed =>
       /\ agents'[1].tasks[1].completed
       /\ ret'.op = "advance" =>
             /\ ret'.value = TaskFeedback(agents[1].tasks[1].name, 0, TRUE,
                                          MsgAlreadyCompleted)
             /\ ~ret'.raised
             /\ agents' = agents]_vars

\* C5 witness: advance was called on a task that was already completed.
C5_Witness ==
    /\ ret.op = "advance"
    /\ ret.value.message = MsgAlreadyCompleted
    /\ agents[1].tasks[1].completed
    /\ agents[1].tasks[1].progress >= agents[1].tasks[1].required_progress

\* requiredProgress 2.0, difficulty 1.0, default progress function, no
\* resource requirements; creativity 0, organization 0, no skills
PlainCase ==
    /\ agents[1].tasks[1].name = "Plain"
    /\ agents[1].tasks[1].required_progress = 2 * ProgOne
    /\ agents[1].tasks[1].difficulty = 10
    /\ agents[1].tasks[1].progress_function = "none"
    /\ agents[1].tasks[1].resources_required = <<>>
    /\ agents[1].traits.creativity = 0
    /\ agents[1].traits.organization = 0
    /\ DOMAIN agents[1].skills = {}

\* C7 as stated: each call adds exactly 0.2, the task is pending after 9
\* calls and completes on the 10th, which returns a completion message.
C7_AddsOneFifth ==
    (PlainCase /\ calls <= 10) =>
       /\ agents[1].tasks[1].progress = calls * 2000
       /\ agents[1].tasks[1].completed = (calls = 10)
       /\ (ret.op = "advance" /\ calls = 10) =>
             ret.value.message = MsgCompleted("Plain")

\* C7 amended: each call adds exactly 0.22 (0.2 plus 0.2 times the bonus 0.1
\* of an agent without skills), the task is pending after 9 calls (1.98) and
\* completes on the 10th (2.2), which returns a completion message.
C7_AddsTwentyTwoHundredths ==
    (PlainCase /\ calls <= 10) =>
       /\ agents[1].tasks[1].progress = calls * 2200
       /\ agents[1].tasks[1].completed = (calls = 10)
       /\ (ret.op = "advance" /\ calls >= 1) =>
             /\ ret.value.progress_delta = 2200
             /\ ret.value.completed = (calls = 10)
             /\ ret.value.message =
                   IF calls = 10 THEN MsgCompleted("Plain")
                   ELSE MsgProgressed("Plain", 2200)

\* C7 witness: the 10th call has completed the task.
C7_Witness ==
    /\ PlainCase
    /\ calls = 10
    /\ ret.op = "advance"
    /\ ret.value.message = MsgCompleted("Plain")
    /\ agents[1].tasks[1].progress = 22000

(***************************************************************************)
(* The methods of one agent of a populated simulation, and Simulation.tick *)
(***************************************************************************)
MaxSteps == 4

\* the trait overrides handed to customize: far out of range, and a name
\* that is no trait
TraitOverrides ==
    {[creativity |-> 30], [organization |-> -30, ambition |-> 1], [charisma |-> 5]}

\* the deltas handed to adjust_emotion
EmotionDeltas == {<<300, 0, -300>>, <<-7, 500, 0>>}

\* the affinities handed to influence_relationship, in thousandths
Affinities == {-20000, 2000, 6000}

\* the names handed to get_relationship and influence_relationship
Others == {"Aurora", "Zed"}

\* populate_demo_agents has run on Simulation(World("w"), seed=1)
InitAgent ==
    /\ InitSim([NewSimulation(NewWorld(WorldOne \div 2, WorldOne \div 2, WorldOne \div 2),
                              <<1>>, 0)
                EXCEPT !.agents = <<Dex, Aurora, Nova>>])
    /\ twin = <<>>
    /\ ret = NoCall
    /\ calls = <<>>
    /\ nops = 0

\* the calls below are made on agents[1]; only the registry changes
OnFirstAgent(agent) ==
    /\ nops < MaxSteps
    /\ agents' = [agents EXCEPT ![1] = agent]
    /\ nops' = nops + 1
    /\ UNCHANGED <<world, scheduled_events, history, seed, rng, twin>>

CustomizeCall ==
    /\ \E overrides \in TraitOverrides :
          OnFirstAgent(Customize(agents[1], overrides, <<>>, <<"Order">>))
    /\ ret' = [op |-> "customize"]
    /\ UNCHANGED calls

AdjustEmotionCall ==
    /\ \E d \in EmotionDeltas :
          OnFirstAgent(AdjustEmotion(agents[1], d[1], d[2], d[3]))
    /\ ret' = [op |-> "adjust_emotion"]
    /\ UNCHANGED calls

GetRelationshipCall ==
    /\ \E other \in Others :
          /\ OnFirstAgent(GetRelationship(agents[1], other))
          /\ ret' = [op |-> "get_relationship", other |-> other]
    /\ UNCHANGED calls

InfluenceRelationshipCall ==
    /\ \E other \in Others :
       \E affinity \in Affinities :
          /\ OnFirstAgent(InfluenceRelationship(agents[1], other, affinity))
          /\ ret' = [op |-> "influence_relationship", other |-> other]
    /\ UNCHANGED calls

\* the efforts handed to learn_skill, in tenths: -1.0, 1.0 and 5.0
Efforts == {-10, 10, 50}

LearnSkillCall ==
    /\ \E effort \in Efforts :
          /\ OnFirstAgent(LearnSkill(agents[1], "logistics", effort))
          /\ ret' = [op |-> "learn_skill", effort |-> effort]
    /\ UNCHANGED calls

\* the completions a list of messages reports for the agent called name
Completions(name, messages) ==
    SelectSeq([i \in 1..Len(messages) |-> <<name, messages[i]>>],
              LAMBDA e : e[2][1] \in {"Completed task", "Task already completed."})

\* agents[1].tick(world); calls logs the completions reported
AgentTickCall ==
    /\ LET r == AgentTick(agents[1], world)
       IN  /\ OnFirstAgent(r.agent)
           /\ ret' = [op |-> "agent_tick", value |-> r.feedback, raised |-> r.raised]
           /\ calls' = calls \o Completions(agents[1].name, Messages(r.feedback))

\* the completions the result of a tick reports, agent by agent
RECURSIVE TickCompletions(_, _, _)
TickCompletions(ags, feedback, i) ==
    IF i > Len(ags) THEN <<>>
    ELSE Completions(ags[i].name, feedback[ags[i].name])
         \o TickCompletions(ags, feedback, i + 1)

AgentSimTick ==
    /\ nops < MaxSteps
    /\ Returned("tick", SimTick(SimNow))
    /\ calls' = calls \o TickCompletions(agents, ret'.value.feedback, 1)
    /\ nops' = nops + 1
    /\ UNCHANGED twin

NextAgent ==
    \/ CustomizeCall
    \/ AdjustEmotionCall
    \/ GetRelationshipCall
    \/ InfluenceRelationshipCall
    \/ LearnSkillCall
    \/ AgentTickCall
    \/ AgentSimTick

SpecAgent == InitAgent /\ [][NextAgent]_vars

NoCompletedIn(agent) == \A j \in 1..Len(agent.tasks) : ~agent.tasks[j].completed

TaskNames(agent) == [j \in 1..Len(agent.tasks) |-> agent.tasks[j].name]

NoRepeats(s) == \A i, j \in 1..Len(s) : s[i] = s[j] => i = j

\* the names of tasks that the feedback list fb does not report completed
StillPending(names, fb) ==
    SelectSeq(names, LAMBDA n : \A j \in 1..Len(fb) :
                                    fb[j].task_name = n => ~fb[j].completed)

\* the names of tasks for which messages holds no completion message
NotAnnounced(names, messages) ==
    SelectSeq(names, LAMBDA n : \A j \in 1..Len(messages) :
                                    messages[j] # MsgCompleted(n))

\* C6: after Agent.tick (called directly or by Simulation.tick) the agent's
\* task list holds no completed task and keeps the others in their order; the
\* feedback has one entry per task owned at the start, in task order; and no
\* task's completion is reported by two ticks.
C6_TickDropsCompleted ==
    [][/\ ret'.op = "agent_tick" =>
             /\ ~ret'.raised
             /\ NoCompletedIn(agents'[1])
             /\ Len(ret'.value) = Len(agents[1].tasks)
             /\ \A j \in 1..Len(ret'.value) :
                   ret'.value[j].task_name = agents[1].tasks[j].name
             /\ TaskNames(agents'[1]) = StillPending(TaskNames(agents[1]), ret'.value)
       /\ ret'.op = "tick" =>
             \A i \in 1..Len(agents) :
                /\ NoCompletedIn(agents'[i])
                /\ Len(ret'.value.feedback[agents[i].name]) = Len(agents[i].tasks)
                /\ TaskNames(agents'[i]) =
                      NotAnnounced(TaskNames(agents[i]),
                                   ret'.value.feedback[agents[i].name])
       /\ NoRepeats(calls')]_vars

\* C6 witness: a tick of Dex after the one that reported Audit completed: it
\* returned one entry for each of the two tasks left, neither completed.
C6_Witness ==
    /\ ret.op = "agent_tick"
    /\ calls = <<<<"Dex", MsgCompleted("Audit")>>>>
    /\ Len(ret.value) = 2
    /\ ~ret.value[1].completed
    /\ ~ret.value[2].completed
    /\ TaskNames(agents[1]) = <<"Supply Chain", "Inventory">>

\* C8: every trait is in [-1, 1], every emotion dimension in [0, 1] and every
\* relationship's closeness and trust in [0, 1].
C8_ValuesStayInRange ==
    \A i \in 1..Len(agents) :
       /\ \A k \in DOMAIN agents[i].traits :
             agents[i].traits[k] >= -TraitOne /\ agents[i].traits[k] <= TraitOne
       /\ \A f \in {"happiness", "stress", "energy"} :
             agents[i].emotion[f] >= 0 /\ agents[i].emotion[f] <= EmoOne
       /\ \A o \in DOMAIN agents[i].relationships :
             /\ agents[i].relationships[o].closeness >= 0
             /\ agents[i].relationships[o].closeness <= RelOne
             /\ agents[i].relationships[o].trust >= 0
             /\ agents[i].relationships[o].trust <= RelOne

\* C8 witness: customize, adjust_emotion and influence_relationship have been
\* called with deltas far out of range and the values sit on the bounds.
C8_Witness ==
    /\ nops >= 3
    /\ agents[1].traits.creativity = TraitOne
    /\ agents[1].emotion.happiness = EmoOne
    /\ agents[1].emotion.energy = 0
    /\ \E o \in DOMAIN agents[1].relationships :
          agents[1].relationships[o].closeness = 0

\* C10: every relationship's sentiment is the threshold rule applied to its
\* trust and closeness: ally iff trust > 0.7 and closeness > 0.6, rival iff
\* trust < 0.3 and closeness < 0.3, neutral otherwise.
C10_SentimentMatchesRule ==
    \A i \in 1..Len(agents) :
    \A o \in DOMAIN agents[i].relationships :
       LET r == agents[i].relationships[o]
       IN  r.sentiment =
              IF r.trust > 7000 /\ r.closeness > 6000 THEN "ally"
              ELSE IF r.trust < 3000 /\ r.closeness < 3000 THEN "rival"
              ELSE "neutral"

(***************************************************************************)
(* adjust_global_state and Simulation.tick on the populated simulation     *)
(***************************************************************************)
\* two agents at opposite ends of sociability, empathy and organization
Hermit ==
    Customize(NewAgent("Hermit", "XXXX"),
              [sociability |-> -10, empathy |-> -10, organization |-> 10], <<>>, <<>>)

Host ==
    Customize(NewAgent("Host", "XXXX"),
              [sociability |-> 10, empathy |-> 10, organization |-> -10], <<>>, <<>>)

\* registries of zero to four agents
Registries ==
    {<<>>, <<Nova>>, <<Nova, Isla>>, <<Hermit, Host>>, <<Nova, Aurora, Dex>>,
     <<Nova, Aurora, Dex, Isla>>}

\* the step counts handed to run
RunSteps == {-1, 0, 1, 2}

InitWorld ==
    /\ \E economy \in {0, WorldOne \div 2} :
       \E registry \in Registries :
          InitSim(ScheduleEvent(
                      [NewSimulation(NewWorld(economy, WorldOne \div 2, (7 * WorldOne) \div 10),
                                     <<1>>, 0)
                       EXCEPT !.agents = registry],
                      Festival, 2))
    /\ twin = <<>>
    /\ ret = NoCall
    /\ calls = <<>>
    /\ nops = 0

AdjustGlobalStateCall ==
    /\ nops < MaxOps
    /\ \E d \in GlobalDeltas :
          world' = AdjustGlobalState(world, d[1], d[2], d[3])
    /\ ret' = [op |-> "adjust_global_state"]
    /\ nops' = nops + 1
    /\ UNCHANGED <<agents, scheduled_events, history, seed, rng, twin, calls>>

\* simulation.run(steps)
RunCall ==
    /\ \E steps \in RunSteps :
          /\ world.tick_count + steps <= MaxTick
          /\ LET r == Run(SimNow, steps)
             IN  /\ Install(r.sim)
                 /\ ret' = [op |-> "run", steps |-> steps, value |-> r.result,
                            raised |-> r.raised]
    /\ UNCHANGED <<twin, calls, nops>>

NextWorld ==
    \/ AdjustGlobalStateCall
    \/ TickCall
    \/ RunCall

SpecWorld == InitWorld /\ [][NextWorld]_vars

\* C9: economy, culture and stability are each in [0, 1].
C9_MetricsStayInRange ==
    /\ world.economy >= 0 /\ world.economy <= WorldOne
    /\ world.culture >= 0 /\ world.culture <= WorldOne
    /\ world.stability >= 0 /\ world.stability <= WorldOne

\* C9 witness: after adjust_global_state with deltas far out of range, a tick
\* has aggregated a negative economy delta onto economy 0 and a positive
\* culture delta onto culture 1, and the festival's world effect has run.
C9_Witness ==
    /\ ret.op = "tick"
    /\ nops >= 1
    /\ world.culture = WorldOne
    /\ world.economy = 0
    /\ Len(world.event_log) = 1
    /\ SumSeq([i \in 1..Len(agents) |-> agents[i].traits.ambition]) < 0

(***************************************************************************)
(* Every operation of the engine on one populated simulation               *)
(***************************************************************************)
\* a world effect and two agent effects, the first of which reads the world
Parade ==
    NewEvent("Parade", "A parade crosses town", "festival_effect",
             <<"civic_effect", "grant_effect">>)

\* an event whose second agent effect raises
Jinx ==
    NewEvent("Jinx", "Something goes wrong", "slump_effect",
             <<"grant_effect", "broken_effect">>)

\* the events handed to Event.apply directly
AppliedEvents == {Festival, Parade, Jinx}

\* the region names handed to add_agent and relocate_agent: a region that is
\* added, one that never is, and "" for None
Places == {"", "Metropolis", "Atlantis"}

\* Aurora and Dex are registered and not placed; Crunch is scheduled
InitOps ==
    /\ InitSim(ScheduleEvent(
                   [NewSimulation(NewWorld(WorldOne \div 2, WorldOne \div 2, WorldOne \div 2),
                                  <<1>>, 0)
                    EXCEPT !.agents = <<Aurora, Dex>>],
                   Crunch, 2))
    /\ twin = <<>>
    /\ ret = NoCall
    /\ calls = <<>>
    /\ nops = 0

\* the calls of this section other than tick share the budget MaxOps
OpsCall(sim, call) ==
    /\ nops < MaxOps
    /\ Install(sim)
    /\ ret' = call
    /\ nops' = nops + 1
    /\ UNCHANGED <<twin, calls>>

\* simulation.add_agent(Nova, region=region)
OpsAddAgent ==
    /\ IndexOf(agents, "Nova") = 0
    /\ \E region \in Places :
          OpsCall(AddAgent(SimNow, Nova, region),
                  [op |-> "add_agent", name |-> "Nova", region |-> region])

\* simulation.world.place_agent(agent_name, region_name)
OpsPlaceAgent ==
    \E i \in 1..Len(agents) :
    \E region \in Places \ {""} :
       OpsCall([SimNow EXCEPT !.world = PlaceAgent(@, agents[i].name, region)],
               [op |-> "place_agent", name |-> agents[i].name, region |-> region])

\* simulation.add_region(name)
OpsAddRegion ==
    \E name \in RegionNames :
       OpsCall(AddRegion(SimNow, name, <<>>, "urban"), [op |-> "add_region"])

\* simulation.world.relocate_agent(agent_name, region_name)
OpsRelocate ==
    \E i \in 1..Len(agents) :
    \E region \in Places \ {""} :
       OpsCall([SimNow EXCEPT !.world = RelocateAgent(@, agents[i].name, region)],
               [op |-> "relocate_agent", name |-> agents[i].name, region |-> region])

\* simulation.schedule_event(Festival, in_ticks=in_ticks)
OpsScheduleEvent ==
    \E in_ticks \in Offsets :
       OpsCall(ScheduleEvent(SimNow, Festival, in_ticks), [op |-> "schedule_event"])

\* event.apply(simulation.world, simulation.agents.values())
OpsEventApply ==
    \E event \in AppliedEvents :
       LET r == EventApply(event, world, agents)
       IN  OpsCall([SimNow EXCEPT !.world = r.world, !.agents = r.agents],
                   [op |-> "apply", event |-> event, raised |-> r.raised])

\* simulation.agents[name].tick(simulation.world)
OpsAgentTick ==
    \E i \in 1..Len(agents) :
       LET r == AgentTick(agents[i], world)
       IN  OpsCall([SimNow EXCEPT !.agents[i] = r.agent],
                   [op |-> "agent_tick", name |-> agents[i].name,
                    value |-> r.feedback, raised |-> r.raised])

\* simulation.world.adjust_global_state(economy=de, culture=dc, stability=ds)
OpsAdjustGlobalState ==
    \E d \in GlobalDeltas :
       OpsCall([SimNow EXCEPT !.world = AdjustGlobalState(@, d[1], d[2], d[3])],
               [op |-> "adjust_global_state"])

NextOps ==
    \/ OpsAddAgent
    \/ OpsAddRegion
    \/ OpsPlaceAgent
    \/ OpsRelocate
    \/ OpsScheduleEvent
    \/ OpsEventApply
    \/ OpsAgentTick
    \/ OpsAdjustGlobalState
    \/ TickCall

SpecOps == InitOps /\ [][NextOps]_vars

\* C11: tick_count never decreases; a Simulation.tick raises it by exactly one
\* and its result carries the new value; no other operation changes it.
C11_OnlyTickAdvancesTickCount ==
    [][/\ world'.tick_count >= world.tick_count
       /\ ret'.op = "tick" =>
             /\ world'.tick_count = world.tick_count + 1
             /\ ~ret'.raised
             /\ ret'.value.tick = world'.tick_count
       /\ ret'.op # "tick" => world'.tick_count = world.tick_count]_vars

\* C11 witness: the second tick has returned after an agent was placed in a
\* region and an event was applied directly.
C11_Witness ==
    /\ ret.op = "tick"
    /\ ret.value.tick = 2
    /\ world.tick_count = 2
    /\ nops = MaxOps
    /\ DOMAIN world.agent_locations # {}
    /\ \E i \in 1..Len(world.event_log) : world.event_log[i][2] = 0

\* the happiness civic_effect adds when the world's culture is c
CivicGain(c) == (c * EmoOne) \div WorldOne - 50

\* C14: Event.apply runs the world effect first, then every agent effect once
\* on every registered agent (an effect that reads the world sees the world
\* effect's result; when the second effect raises, the first has run on all
\* agents), and only then appends one log entry tagged with the tick_count of
\* the moment (none when an effect has raised).
C14_ApplyOrder ==
    [][ret'.op = "apply" =>
        /\ Len(agents') = Len(agents)
        /\ world'.tick_count = world.tick_count
        /\ ret'.event = Festival =>
              /\ ~ret'.raised
              /\ world'.culture = Min(WorldOne, world.culture + 120000)
              /\ world'.stability = Min(WorldOne, world.stability + 60000)
              /\ world'.economy = world.economy
              /\ \A i \in 1..Len(agents) :
                    /\ agents'[i].emotion.happiness =
                          Min(EmoOne, agents[i].emotion.happiness + 10)
                    /\ agents'[i].emotion.stress = Max(0, agents[i].emotion.stress - 5)
                    /\ agents'[i].resources = agents[i].resources
        /\ ret'.event = Parade =>
              /\ ~ret'.raised
              /\ world'.culture = Min(WorldOne, world.culture + 120000)
              /\ \A i \in 1..Len(agents) :
                    /\ agents'[i].emotion.happiness =
                          Max(0, Min(EmoOne, agents[i].emotion.happiness
                                             + CivicGain(world'.culture)))
                    /\ agents'[i].resources.time = agents[i].resources.time + 10
                    /\ agents'[i].resources.money = agents[i].resources.money
        /\ ret'.event = Jinx =>
              /\ ret'.raised
              /\ world'.economy = Max(0, world.economy - 240000)
              /\ \A i \in 1..Len(agents) :
                    /\ agents'[i].resources.time = agents[i].resources.time + 10
                    /\ agents'[i].emotion = agents[i].emotion
        /\ world'.event_log =
              IF ret'.raised THEN world.event_log
              ELSE Append(world.event_log,
                          <<"Tick", world.tick_count, ret'.event.description>>)]_vars

\* C14 witness: Parade was applied after the first tick to three registered
\* agents: its entry carries tick 1 and the agents gained the happiness that
\* the culture raised by the world effect gives.
C14_Witness ==
    /\ ret.op = "apply"
    /\ ret.event = Parade
    /\ Len(agents) = 3
    /\ world.tick_count = 1
    /\ world.event_log[Len(world.event_log)] = <<"Tick", 1, "A parade crosses town">>
    /\ CivicGain(world.culture) > 0
    /\ \A i \in 1..Len(agents) : agents[i].resources.time >= 10

(***************************************************************************)
(* Ticks with supplied callables that may fail                             *)
(***************************************************************************)
\* an agent short of time whose task needs 15 units of it
Worker ==
    AssignTask(WithResources(NewAgent("Worker", "XXXX"), [money |-> 100, time |-> 5]),
               NewTask("Shift", 2 * ProgOne, 10, "none", <<Requirement("time", 15)>>))

\* an agent whose second task has a progress function that raises
Glitch ==
    AssignTask(AssignTask(NewAgent("Glitch", "ISTP"),
                          NewTask("Warmup", 2 * ProgOne, 10, "none", <<>>)),
               NewTask("Crash", ProgOne, 10, "broken_progress", <<Requirement("time", 5)>>))

Grant == NewEvent("Grant", "Time is granted", "none", <<"grant_effect">>)

\* an event whose world effect raises
Sabotage == NewEvent("Sabotage", "The works are sabotaged", "broken_effect", <<>>)

FailingEvents == {Grant, Festival, Jinx, Sabotage}

InitFail ==
    /\ \E registry \in {<<Worker, Nova, Aurora>>, <<Worker, Glitch, Nova>>} :
          InitSim([NewSimulation(NewWorld(WorldOne \div 2, WorldOne \div 2, WorldOne \div 2),
                                 <<1>>, 0)
                   EXCEPT !.agents = registry])
    /\ twin = <<>>
    /\ ret = NoCall
    /\ calls = <<>>
    /\ nops = 0

\* simulation.schedule_event(event, in_ticks=in_ticks)
FailScheduleEvent ==
    \E event \in FailingEvents :
    \E in_ticks \in Offsets :
       OpsCall(ScheduleEvent(SimNow, event, in_ticks), [op |-> "schedule_event"])

\* simulation.tick(), the caller catching what it raises
NextFail ==
    \/ FailScheduleEvent
    \/ TickCall

SpecFail == InitFail /\ [][NextFail]_vars

\* the first two phases of the tick about to run: the counter, then the events
EventsPhase == TriggerEvents(scheduled_events, WorldTick(world), agents)

\* position of the first agent whose Agent.tick raises, 0 if none does
FirstRaising(ags, w) ==
    LET bad == {i \in 1..Len(ags) : AgentTick(ags[i], w).raised}
    IN  IF bad = {} THEN 0 ELSE CHOOSE i \in bad : \A j \in bad : i <= j

\* the time the due Grant events of the tick about to run give to each agent
GrantedTime ==
    10 * Len(SelectSeq(DueAt(scheduled_events, world.tick_count + 1),
                       LAMBDA e : e.event = Grant))

\* C12: a tick increments the counter, then applies the due events, then runs
\* Agent.tick agent by agent in registry order, then the interactions, then
\* the world feedback, then appends the result.  Log entries of the tick carry
\* the new count; time granted by an event of the tick counts in the resource
\* check of that tick; a relationship created by the tick's interaction has
\* not decayed; the world feedback is computed from the agents as the tick
\* leaves them; when an agent's tick raises, the agents before it have
\* ticked, those after it have not, and nothing later has happened.
C12_PhasesInOrder ==
    [][ret'.op = "tick" =>
        /\ world'.tick_count = world.tick_count + 1
        /\ \A i \in (Len(world.event_log) + 1)..Len(world'.event_log) :
              world'.event_log[i][2] = world'.tick_count
        /\ ~ret'.raised =>
              /\ ret'.value.tick = world'.tick_count
              /\ history' = Append(history, ret'.value)
              /\ (ret'.value.feedback["Worker"][1][1] = "Insufficient")
                    <=> (agents[1].resources.time + GrantedTime + 5 < 15)
              /\ agents'[1].resources.time =
                    IF agents[1].resources.time + GrantedTime + 5 < 15
                    THEN agents[1].resources.time + GrantedTime + 5
                    ELSE agents[1].resources.time + GrantedTime + 5 - 15
              /\ \A i \in 1..Len(agents) :
                 \A o \in (DOMAIN agents'[i].relationships) \ (DOMAIN agents[i].relationships) :
                    agents'[i].relationships[o].closeness =
                       1000 + Affinity(agents[i], agents[IndexOf(agents, o)])
              /\ world' = ApplyWorldFeedback(EventsPhase.world, agents')
        /\ ret'.raised =>
              /\ history' = history
              /\ world' = EventsPhase.world
              /\ \A i \in 1..Len(agents) :
                    DOMAIN agents'[i].relationships = DOMAIN agents[i].relationships
              /\ EventsPhase.raised => agents' = EventsPhase.agents
              /\ ~EventsPhase.raised =>
                    LET k == FirstRaising(EventsPhase.agents, EventsPhase.world)
                    IN  /\ k # 0
                        /\ \A i \in 1..(k - 1) :
                              agents'[i] = AgentTick(EventsPhase.agents[i],
                                                     EventsPhase.world).agent
                        /\ \A i \in (k + 1)..Len(agents) :
                              agents'[i] = EventsPhase.agents[i]]_vars

\* C12 witness: the first tick applied a Grant event and Worker, who had 5
\* units of time and needs 15, progressed in that same tick; a pair has
\* interacted.
C12_Witness ==
    /\ ret.op = "tick"
    /\ ~ret.raised
    /\ ret.value.tick = 1
    /\ ret.value.events = <<"Time is granted">>
    /\ ret.value.feedback["Worker"][1][1] = "Progressed"
    /\ agents[1].resources.time = 5
    /\ \E i \in 1..Len(agents) : DOMAIN agents[i].relationships # {}

\* C16: a tick that raises leaves the world, the agents, the scheduled events
\* and the history as they were before it began.
C16_TickIsAllOrNothing ==
    [][(ret'.op = "tick" /\ ret'.raised) =>
          UNCHANGED <<world, agents, scheduled_events, history>>]_vars

(***************************************************************************)
(* The social pass and run                                                 *)
(***************************************************************************)
\* the agents of the tick about to run as its social pass finds them
BeforeSocialPass ==
    TickAgents(EventsPhase.agents, EventsPhase.world, 1, EmptyDict).agents

\* closeness and trust of a toward the agent called other, 0.1 if there is
\* no relationship yet
Standing(a, other) ==
    IF other \in DOMAIN a.relationships
    THEN [closeness |-> a.relationships[other].closeness,
          trust |-> a.relationships[other].trust]
    ELSE [closeness |-> 1000, trust |-> 1000]

\* after is before having interacted with the agent called other at affinity aff
HasMet(before, after, other, aff) ==
    /\ DOMAIN after.relationships = (DOMAIN before.relationships) \cup {other}
    /\ \A o \in (DOMAIN before.relationships) \ {other} :
          after.relationships[o] = before.relationships[o]
    /\ after.relationships[other].closeness =
          Max(0, Min(RelOne, Standing(before, other).closeness + aff))
    /\ after.relationships[other].trust =
          Max(0, Min(RelOne, Standing(before, other).trust + aff))
    /\ after.emotion =
          IF aff > 0
          THEN [before.emotion EXCEPT !.happiness = Min(EmoOne, @ + 2)]
          ELSE [before.emotion EXCEPT !.stress = Min(EmoOne, @ + 2)]
    /\ after.resources = before.resources
    /\ after.tasks = before.tasks
    /\ after.traits = before.traits

\* the ways to pair off positions 1..n: sets of disjoint two-element sets
Pairings(n) ==
    {P \in SUBSET {pr \in SUBSET (1..n) : Cardinality(pr) = 2} :
        \A p \in P : \A q \in P : p # q => p \cap q = {}}

\* C13: the social pass of a tick over n agents forms floor(n / 2) disjoint
\* pairs of distinct agents and leaves n mod 2 agents out; both members of a
\* pair have their relationship toward the other moved by the same affinity
\* and get the same emotion change (happiness + 0.02 if the affinity is
\* positive, else stress + 0.02); an agent left out is not touched.
C13_PairsAreDisjointAndMutual ==
    [][ret'.op = "tick" =>
        \E P \in Pairings(Len(agents)) :
           /\ Cardinality(P) = Len(agents) \div 2
           /\ Cardinality({i \in 1..Len(agents) : \A p \in P : i \notin p})
                 = Len(agents) % 2
           /\ \A p \in P : \A i \in p : \A j \in p \ {i} :
                 HasMet(BeforeSocialPass[i], agents'[i], agents[j].name,
                        Affinity(agents[i], agents[j]))
           /\ \A i \in 1..Len(agents) :
                 (\A p \in P : i \notin p) => agents'[i] = BeforeSocialPass[i]]_vars

\* C13 witness: a tick over three agents has paired two of them, each now
\* holding a relationship toward the other, and left the third out.
C13_Witness ==
    /\ ret.op = "tick"
    /\ Len(agents) = 3
    /\ \E i, j, k \in 1..3 :
          /\ i # j /\ j # k /\ i # k
          /\ DOMAIN agents[i].relationships = {agents[j].name}
          /\ DOMAIN agents[j].relationships = {agents[i].name}
          /\ DOMAIN agents[k].relationships = {}
          /\ agents[i].relationships[agents[j].name].closeness
                = agents[j].relationships[agents[i].name].closeness

\* C15: run(steps) returns one result per tick, for ticks t + 1 to t + steps
\* in that order, and appends the same results to history in that order
\* (none, and no change at all, for steps <= 0); no step of any operation
\* changes, reorders or removes an entry history already holds.
C15_RunReturnsTicksInOrder ==
    [][/\ Len(history') >= Len(history)
       /\ SubSeq(history', 1, Len(history)) = history
       /\ ret'.op = "run" =>
             /\ ~ret'.raised
             /\ Len(ret'.value) = Max(0, ret'.steps)
             /\ \A k \in 1..Len(ret'.value) :
                   ret'.value[k].tick = world.tick_count + k
             /\ history' = history \o ret'.value
             /\ world'.tick_count = world.tick_count + Max(0, ret'.steps)
             /\ ret'.steps <= 0 =>
                   UNCHANGED <<world, agents, scheduled_events, history, seed, rng>>]_vars

\* C15 witness: run(2) has returned the results of ticks 2 and 3 after an
\* earlier tick, and history holds all three.
C15_Witness ==
    /\ ret.op = "run"
    /\ ret.steps = 2
    /\ Len(ret.value) = 2
    /\ ret.value[1].tick = 2
    /\ ret.value[2].tick = 3
    /\ Len(history) = 3
    /\ history[2] = ret.value[1]
    /\ history[3] = ret.value[2]
    /\ ret.value[1] # ret.value[2]

(***************************************************************************)
(* Task.advance: what a shortfall and a payment change                     *)
(***************************************************************************)
\* advance is being called on a pending task whose agent lacks a resource
ShortfallCall ==
    /\ ret'.op = "advance"
    /\ ~agents[1].tasks[1].completed
    /\ Shortfalls(agents[1], agents[1].tasks[1]) # {}

\* C17 as stated: on a shortfall nothing is mutated, neither the agent
\* (resources, emotion, traits, skills, relationships, task list) nor the
\* task nor the world.
C17_ShortfallMutatesNothing ==
    [][ShortfallCall => (agents' = agents /\ world' = world)]_vars

\* C17 amended: on a shortfall the agent's stress rises by 0.05 (capped at
\* 1) and nothing else is mutated: the agent's resources, other emotions,
\* traits, skills, relationships and task list, the task and the world are as
\* before, and the feedback names the shortfall.
C17_ShortfallOnlyAddsStress ==
    [][ShortfallCall =>
          /\ agents' = <<[agents[1] EXCEPT !.emotion.stress = Min(EmoOne, @ + 5)]>>
          /\ world' = world
          /\ ~ret'.raised
          /\ ret'.value.message[1] = "Insufficient"]_vars

\* C17 witness: advance has reported a shortfall of time twice in a row; the
\* agent still has its 5 units and the task no progress, stress went from
\* 0.2 to 0.3.
C17_Witness ==
    /\ ret.op = "advance"
    /\ calls = 2
    /\ nops = 0
    /\ ret.value.message = MsgInsufficient("time", "Timed")
    /\ agents[1].resources.time = 5
    /\ agents[1].tasks[1].progress = 0
    /\ agents[1].emotion.stress = 30

\* what the requirements reqs ask of resource k in total
Required(reqs, k) ==
    SumSeq([i \in 1..Len(reqs) |-> IF reqs[i].resource = k THEN reqs[i].amount ELSE 0])

\* C18: advance on a pending task whose agent holds every required resource,
\* whatever the resources are called, does not raise, takes exactly the
\* required amount of each required resource and leaves the others alone.
C18_PaysEveryRequirement ==
    [][(/\ ret'.op = "advance"
        /\ ~agents[1].tasks[1].completed
        /\ Shortfalls(agents[1], agents[1].tasks[1]) = {}) =>
          /\ ~ret'.raised
          /\ DOMAIN agents'[1].resources = DOMAIN agents[1].resources
          /\ \A k \in DOMAIN agents[1].resources :
                agents'[1].resources[k] =
                   agents[1].resources[k]
                   - Required(agents[1].tasks[1].resources_required, k)]_vars

(***************************************************************************)
(* One agent with one task: adjust_resources, Task.advance and Agent.tick  *)
(***************************************************************************)
\* the amounts of time the agent starts with, around the threshold 10
PoolTimes == {3, 5, 9, 10, 11, 40}

PoolTasks ==
    {NewTask("Chore", 5000, 10, "none", <<Requirement("time", 8)>>),
     NewTask("Costly", ProgOne, 20, "none",
             <<Requirement("money", 60), Requirement("time", 8)>>)}

\* the deltas handed to adjust_resources
PoolDeltas == ResourceDeltas \cup {<<-7, -3>>, <<0, 2>>}

InitPool ==
    /\ \E t \in PoolTimes :
       \E task \in PoolTasks :
          InitSim([NewSimulation(NewWorld(WorldOne \div 2, WorldOne \div 2, WorldOne \div 2),
                                 <<1>>, 0)
                   EXCEPT !.agents =
                      <<AssignTask(WithResources(NewAgent("Pat", "XXXX"),
                                                 [money |-> 100, time |-> t]),
                                   task)>>])
    /\ twin = <<>>
    /\ ret = NoCall
    /\ calls = <<>>
    /\ nops = 0

\* a call on the agent has returned; the calls share the budget MaxSteps
PoolCall(agent, call) ==
    /\ nops < MaxSteps
    /\ agents' = <<agent>>
    /\ ret' = call
    /\ nops' = nops + 1
    /\ UNCHANGED <<world, scheduled_events, history, seed, rng, twin, calls>>

\* agent.adjust_resources(money=dm, time=dt)
PoolAdjustResources ==
    \E d \in PoolDeltas :
       PoolCall(AdjustResources(agents[1], d[1], d[2]), [op |-> "adjust_resources"])

\* agent.tasks[0].advance(agent, world)
PoolAdvance ==
    /\ agents[1].tasks # <<>>
    /\ LET r == TaskAdvance(agents[1].tasks[1], agents[1], world)
       IN  PoolCall([r.agent EXCEPT !.tasks[1] = r.task],
                    [op |-> "advance", value |-> r.fb, raised |-> r.raised])

\* agent.tick(world)
PoolAgentTick ==
    LET r == AgentTick(agents[1], world)
    IN  PoolCall(r.agent, [op |-> "agent_tick", value |-> r.feedback, raised |-> r.raised])

NextPool ==
    \/ PoolAdjustResources
    \/ PoolAdvance
    \/ PoolAgentTick

SpecPool == InitPool /\ [][NextPool]_vars

\* the agent's time as the call about to run finds it
TimeBefore == Get(agents[1].resources, "time", 0)

\* the agent's first task is pending
HasPendingTask == agents[1].tasks # <<>> /\ ~agents[1].tasks[1].completed

\* every requirement of the first task is met once time has grown by 5
MetAfterRegeneration ==
    \A i \in 1..Len(agents[1].tasks[1].resources_required) :
       LET req == agents[1].tasks[1].resources_required[i]
       IN  IF req.resource = "time" THEN TimeBefore + 5 >= req.amount
           ELSE Get(agents[1].resources, req.resource, 0) >= req.amount

\* the emotion e after the mood change decided by the time t
MoodOf(e, t) ==
    IF t < 10
    THEN [e EXCEPT !.stress = Min(EmoOne, @ + 5)]
    ELSE [e EXCEPT !.happiness = Min(EmoOne, @ + 2), !.stress = Max(0, @ - 2)]

\* C19: Agent.tick decides the mood change from the time before regeneration
\* (stress + 0.05 if it is below 10, else happiness + 0.02 and stress - 0.02,
\* time = 10 included), then adds 5 to time, then checks the task's
\* resources: a task requiring R time is paid for in that tick iff time
\* before the tick + 5 >= R (and its other requirements are met).
C19_MoodBeforeRegeneration ==
    [][ret'.op = "agent_tick" =>
        /\ ~ret'.raised
        /\ ~HasPendingTask =>
              /\ agents'[1].emotion = MoodOf(agents[1].emotion, TimeBefore)
              /\ agents'[1].resources.time = TimeBefore + 5
        /\ HasPendingTask =>
              /\ (ret'.value[1].message[1] # "Insufficient") <=> MetAfterRegeneration
              /\ agents'[1].resources.time =
                    IF MetAfterRegeneration
                    THEN TimeBefore + 5
                         - Required(agents[1].tasks[1].resources_required, "time")
                    ELSE TimeBefore + 5
              /\ agents'[1].emotion =
                    IF ~MetAfterRegeneration
                    THEN [MoodOf(agents[1].emotion, TimeBefore)
                          EXCEPT !.stress = Min(EmoOne, @ + 5)]
                    ELSE IF ret'.value[1].completed
                    THEN [MoodOf(agents[1].emotion, TimeBefore)
                          EXCEPT !.happiness = Min(EmoOne, @ + 10),
                                 !.stress = Max(0, @ - 10)]
                    ELSE MoodOf(agents[1].emotion, TimeBefore)]_vars

\* C19 witness: the first call was a tick of an agent with time exactly 10
\* and a task requiring 8: happiness rose to 0.52, stress fell to 0.18, and
\* the task was paid from the 15 units, leaving 7.
C19_Witness ==
    /\ ret.op = "agent_tick"
    /\ nops = 1
    /\ ret.value[1].task_name = "Chore"
    /\ ret.value[1].message[1] = "Progressed"
    /\ agents[1].resources.time = 7
    /\ agents[1].emotion.happiness = 52
    /\ agents[1].emotion.stress = 18

\* the call about to return is an advance or a tick that pays for the task
PayingCall ==
    /\ HasPendingTask
    /\ \/ ret'.op = "advance" /\ Shortfalls(agents[1], agents[1].tasks[1]) = {}
       \/ ret'.op = "agent_tick" /\ MetAfterRegeneration

\* C20: through adjust_resources with any deltas, Task.advance and Agent.tick
\* the agent's money and time are never negative, and a deduction that goes
\* through leaves exactly the amount before (plus the 5 units of time a tick
\* regenerates) minus the requirement.
C20_ResourcesNeverNegative ==
    [][/\ agents'[1].resources.money >= 0
       /\ agents'[1].resources.time >= 0
       /\ PayingCall =>
             /\ agents'[1].resources.money =
                   agents[1].resources.money
                   - Required(agents[1].tasks[1].resources_required, "money")
             /\ agents'[1].resources.time =
                   TimeBefore + (IF ret'.op = "agent_tick" THEN 5 ELSE 0)
                   - Required(agents[1].tasks[1].resources_required, "time")]_vars

\* C20 witness: adjust_resources has floored money at 0 and later raised it
\* to 50, and an advance has then paid 8 units of time out of 11.
C20_Witness ==
    /\ ret.op = "advance"
    /\ ret.value.task_name = "Chore"
    /\ ret.value.message[1] = "Progressed"
    /\ agents[1].resources.money = 50
    /\ agents[1].resources.time = 3

(***************************************************************************)
(* Skill levels and task progress                                          *)
(***************************************************************************)
\* C21: every skill level of every agent is in [0, 1].
C21_SkillsInRange ==
    \A i \in 1..Len(agents) :
    \A k \in DOMAIN agents[i].skills :
       agents[i].skills[k] >= 0 /\ agents[i].skills[k] <= EmoOne

\* C22: a task's accumulated progress is never negative, whatever progress
\* function it was given.
C22_ProgressNeverNegative ==
    \A i \in 1..Len(agents) :
    \A j \in 1..Len(agents[i].tasks) :
       agents[i].tasks[j].progress >= 0

(***************************************************************************)
(* A tick of an empty registry                                             *)
(***************************************************************************)
\* the events due in the tick about to run, in scheduling order
DueNow == DueAt(scheduled_events, world.tick_count + 1)

\* C23: with no agent registered a tick skips the aggregation: the metrics
\* change only by the world effects of the events fired (the festival's
\* culture + 0.1 and stability + 0.05), tick_count rises by one, the due
\* events fire and are logged, and a result with an empty feedback map is
\* appended to history.
C23_EmptyRegistrySkipsFeedback ==
    [][(ret'.op = "tick" /\ agents = <<>>) =>
          /\ ~ret'.raised
          /\ agents' = <<>>
          /\ world'.tick_count = world.tick_count + 1
          /\ \A i \in 1..Len(DueNow) : DueNow[i].event = Festival
          /\ world'.economy = world.economy
          /\ world'.culture = Min(WorldOne, world.culture + 120000 * Len(DueNow))
          /\ world'.stability = Min(WorldOne, world.stability + 60000 * Len(DueNow))
          /\ world'.event_log = world.event_log \o
                [i \in 1..Len(DueNow) |->
                    <<"Tick", world.tick_count + 1, DueNow[i].event.description>>]
          /\ ret'.value.tick = world.tick_count + 1
          /\ DOMAIN ret'.value.feedback = {}
          /\ ret'.value.events = [i \in 1..Len(DueNow) |-> DueNow[i].event.description]
          /\ history' = Append(history, ret'.value)]_vars

\* C23 witness: the second tick of an empty registry has fired the festival;
\* economy is where the first tick left it, culture and stability moved by
\* the festival's world effect alone.
C23_Witness ==
    /\ ret.op = "tick"
    /\ agents = <<>>
    /\ nops = 0
    /\ world.tick_count = 2
    /\ Len(history) = 2
    /\ history[1].events = <<>>
    /\ ret.value.events = <<"A joyful harvest festival">>
    /\ world.economy = WorldOne \div 2
    /\ world.culture = WorldOne \div 2 + 120000
    /\ world.stability = (7 * WorldOne) \div 10 + 60000

(***************************************************************************)
(* Placement                                                               *)
(***************************************************************************)
\* the call about to return places an agent: place_agent, or add_agent with
\* a region
PlacingCall ==
    \/ ret'.op = "place_agent"
    \/ ret'.op = "add_agent" /\ ret'.region # ""

\* C24: placing an agent in a region that is not registered records the
\* location under that name and changes nothing else of the world: no
\* region appears, no population moves.
C24_UnknownRegionIsRecorded ==
    [][(PlacingCall /\ ret'.region \notin DOMAIN world.regions) =>
          /\ DOMAIN world'.agent_locations =
                (DOMAIN world.agent_locations) \cup {ret'.name}
          /\ world'.agent_locations[ret'.name] = ret'.region
          /\ \A n \in (DOMAIN world.agent_locations) \ {ret'.name} :
                world'.agent_locations[n] = world.agent_locations[n]
          /\ world'.regions = world.regions
          /\ world' = [world EXCEPT !.agent_locations = world'.agent_locations]]_vars

\* C24 witness: with Metropolis registered and empty, an agent has been
\* placed in Atlantis, which is not registered.
C24_Witness ==
    /\ ret.op = "place_agent"
    /\ ret.region = "Atlantis"
    /\ world.agent_locations[ret.name] = "Atlantis"
    /\ DOMAIN world.regions = {"Metropolis"}
    /\ world.regions["Metropolis"].population = 0

\* the regions of the world under which placements are made
Towns == {"Metropolis", "Harbor"}

\* both regions are registered, Aurora and Dex are registered and not placed
InitPlace ==
    /\ InitSim(AddRegion(AddRegion(
                   [NewSimulation(NewWorld(WorldOne \div 2, WorldOne \div 2, WorldOne \div 2),
                                  <<1>>, 0)
                    EXCEPT !.agents = <<Aurora, Dex>>],
                   "Metropolis", <<>>, "urban"), "Harbor", [fish |-> 20], "coastal"))
    /\ twin = <<>>
    /\ ret = NoCall
    /\ calls = <<>>
    /\ nops = 0

\* simulation.add_agent(Nova, region=region): Nova's one placement
PlaceAddAgent ==
    /\ IndexOf(agents, "Nova") = 0
    /\ \E region \in Towns \cup {"", "Atlantis"} :
          /\ Install(AddAgent(SimNow, Nova, region))
          /\ ret' = [op |-> "add_agent", name |-> "Nova", region |-> region]
    /\ UNCHANGED <<twin, calls, nops>>

\* simulation.world.place_agent(name, region) for an agent with no location
PlaceFirst ==
    /\ \E i \in 1..Len(agents) :
       \E region \in Towns \cup {"Atlantis"} :
          /\ agents[i].name \notin DOMAIN world.agent_locations
          /\ Install([SimNow EXCEPT !.world = PlaceAgent(@, agents[i].name, region)])
          /\ ret' = [op |-> "place_agent", name |-> agents[i].name, region |-> region]
    /\ UNCHANGED <<twin, calls, nops>>

\* simulation.world.relocate_agent(name, region); calls remembers where the
\* agent was
PlaceRelocate ==
    /\ nops < MaxSteps
    /\ \E i \in 1..Len(agents) :
       \E region \in Towns \cup {"Atlantis"} :
          /\ Install([SimNow EXCEPT !.world = RelocateAgent(@, agents[i].name, region)])
          /\ ret' = [op |-> "relocate_agent", name |-> agents[i].name, region |-> region]
          /\ calls' = <<[name |-> agents[i].name,
                         from |-> Get(world.agent_locations, agents[i].name, ""),
                         to |-> region]>>
    /\ nops' = nops + 1
    /\ UNCHANGED twin

NextPlace ==
    \/ PlaceAddAgent
    \/ PlaceFirst
    \/ PlaceRelocate

SpecPlace == InitPlace /\ [][NextPlace]_vars

\* the agents whose recorded location is region r
Residents(w, r) == {n \in DOMAIN w.agent_locations : w.agent_locations[n] = r}

\* C25: with the regions registered first and each agent placed once and
\* then only relocated, every region's population is the number of agents
\* located in it, never negative, and relocating an agent to the region it
\* is in leaves every population as it was.
C25_PopulationCountsResidents ==
    [][/\ \A r \in DOMAIN world'.regions :
             /\ world'.regions[r].population = Cardinality(Residents(world', r))
             /\ world'.regions[r].population >= 0
       /\ (/\ ret'.op = "relocate_agent"
           /\ Get(world.agent_locations, ret'.name, "") = ret'.region) =>
             world'.regions = world.regions]_vars

\* C25 witness: with two agents in Metropolis and one in Harbor, one of the
\* two was relocated to Metropolis, where it already was.
C25_Witness ==
    /\ ret.op = "relocate_agent"
    /\ calls = <<[name |-> ret.name, from |-> "Metropolis", to |-> "Metropolis"]>>
    /\ nops >= 2
    /\ world.regions["Metropolis"].population = 2
    /\ world.regions["Harbor"].population = 1
    /\ Cardinality(DOMAIN world.agent_locations) = 3

(***************************************************************************)
(* Repeated ticks: tasks that compete for time                             *)
(***************************************************************************)
MaxLiveTick == 16

\* an agent with t units of time and two tasks paid in time; the second one
\* is cheap enough to take the time the first one is waiting for
Busy(t) ==
    AssignTask(AssignTask(
        WithResources(NewAgent("Busy", "XXXX"), [money |-> 100, time |-> t]),
        NewTask("Big", 2000, 10, "none", <<Requirement("time", 12)>>)),
        NewTask("Small", 6000, 10, "none", <<Requirement("time", 5)>>))

InitLive ==
    /\ \E t \in {0, 5, 40} :
       \E others \in {<<>>, <<Aurora>>} :
          InitSim([NewSimulation(NewWorld(WorldOne \div 2, WorldOne \div 2, WorldOne \div 2),
                                 <<1>>, 0)
                   EXCEPT !.agents = <<Busy(t)>> \o others])
    /\ twin = <<>>
    /\ ret = NoCall
    /\ calls = <<>>
    /\ nops = 0

\* simulation.agents["Busy"].adjust_resources(time=-1000.0) between two ticks
LiveDrain ==
    /\ nops < MaxOps
    /\ agents' = [agents EXCEPT ![1] = AdjustResources(@, 0, -1000)]
    /\ ret' = [op |-> "adjust_resources"]
    /\ nops' = nops + 1
    /\ UNCHANGED <<world, scheduled_events, history, seed, rng, twin, calls>>

\* simulation.tick(), called again and again
LiveTick ==
    /\ world.tick_count < MaxLiveTick
    /\ Returned("tick", SimTick(SimNow))
    /\ UNCHANGED <<twin, calls, nops>>

NextLive ==
    \/ LiveDrain
    \/ LiveTick

\* the caller keeps calling tick: weak fairness of LiveTick, that is
\* WF_vars(LiveTick), with ENABLED <<LiveTick>>_vars written out as the guard
\* of LiveTick (a tick always changes world.tick_count)
KeepsTicking ==
    \/ []<>(~(world.tick_count < MaxLiveTick))
    \/ []<><<LiveTick>>_vars

SpecLive == InitLive /\ [][NextLive]_vars /\ KeepsTicking

\* the messages tick n reports for the agent called name
Reported(n, name) ==
    {history[n].feedback[name][j] : j \in 1..Len(history[n].feedback[name])}

\* C26: under repeated ticks every pending task with the default progress
\* function and a requirement of time alone is eventually completed and
\* removed from its agent's list, and stays removed.
C26_EveryTaskCompletes ==
    <>[](\A i \in 1..Len(agents) : agents[i].tasks = <<>>)

\* C26 witness: Busy's time was drained twice; Big was short of time in a
\* tick in which Small was paid, and was completed by a later tick; no task
\* is left.
C26_Witness ==
    /\ nops = MaxOps
    /\ \A i \in 1..Len(agents) : agents[i].tasks = <<>>
    /\ \E n \in 1..Len(history) :
          /\ MsgInsufficient("time", "Big") \in Reported(n, "Busy")
          /\ MsgProgressed("Small", 2200) \in Reported(n, "Busy")
          /\ \E m \in (n + 1)..Len(history) :
                MsgCompleted("Big") \in Reported(m, "Busy")

(***************************************************************************)
(* Relationships of the two members of a pair                              *)
(***************************************************************************)
\* an agent without time whose task has a progress function that raises: the
\* first tick leaves it short of time, the second one pays and calls the
\* function
Stall ==
    AssignTask(WithResources(NewAgent("Stall", "ISTP"), [money |-> 100, time |-> 0]),
               NewTask("Crash", ProgOne, 10, "broken_progress",
                       <<Requirement("time", 10)>>))

InitBond ==
    /\ \E registry \in {<<Aurora, Stall>>, <<Stall, Aurora>>, <<Aurora, Dex, Stall>>} :
          InitSim([NewSimulation(NewWorld(WorldOne \div 2, WorldOne \div 2, WorldOne \div 2),
                                 <<1>>, 0)
                   EXCEPT !.agents = registry])
    /\ twin = <<>>
    /\ ret = NoCall
    /\ calls = <<>>
    /\ nops = 0

\* simulation.add_agent(Agent("Isla", "ISFJ")): a new name, no relationships
BondAddAgent ==
    /\ IndexOf(agents, "Isla") = 0
    /\ Install(AddAgent(SimNow, Isla, ""))
    /\ ret' = [op |-> "add_agent"]
    /\ UNCHANGED <<twin, calls, nops>>

\* simulation.tick(), the caller catching what it raises
NextBond ==
    \/ BondAddAgent
    \/ ScheduleEventCall
    \/ TickCall

SpecBond == InitBond /\ [][NextBond]_vars

\* agents[i] and agents[j] hold the same relationship toward each other, or
\* none at all
Mutual(i, j) ==
    LET mine == agents[i].relationships
        theirs == agents[j].relationships
    IN  /\ (agents[j].name \in DOMAIN mine) <=> (agents[i].name \in DOMAIN theirs)
        /\ agents[j].name \in DOMAIN mine /\ agents[i].name \in DOMAIN theirs =>
              /\ mine[agents[j].name].closeness = theirs[agents[i].name].closeness
              /\ mine[agents[j].name].trust = theirs[agents[i].name].trust
              /\ mine[agents[j].name].sentiment = theirs[agents[i].name].sentiment

\* C27: after any sequence of add_agent (new names, no relationships) and
\* tick, A has a relationship toward B iff B has one toward A, the two have
\* equal closeness, trust and sentiment, and nobody has a relationship
\* toward itself.
C27_RelationshipsAreSymmetric ==
    \A i \in 1..Len(agents) :
       /\ agents[i].name \notin DOMAIN agents[i].relationships
       /\ \A j \in 1..Len(agents) : i # j => Mutual(i, j)

(***************************************************************************)
(* Two runs of one configuration that differ in the shuffles               *)
(***************************************************************************)
\* agents whose tasks all use the default progress function
ShuffleCatalogue == <<Aurora, Dex, Worker, Isla>>

\* an event whose agent effect reads the world's culture
Rally == NewEvent("Rally", "A rally fills the square", "festival_effect", <<"civic_effect">>)

\* events whose effects change emotions and world metrics only
ShuffleEvents == {Festival, Rally}

\* Simulation(World("w"), seed=s1) and Simulation(World("w"), seed=s2), two
\* different seeds
InitShuffle ==
    /\ \E s1 \in {1} :
       \E s2 \in (s1 + 1)..MaxSeed :
          /\ InitSim(NewSimulation(NewWorld(WorldOne \div 2, WorldOne \div 2, WorldOne \div 2),
                                   <<s1>>, 0))
          /\ twin = NewSimulation(NewWorld(WorldOne \div 2, WorldOne \div 2, WorldOne \div 2),
                                  <<s2>>, 0)
    /\ calls = <<>>
    /\ ret = NoCall
    /\ nops = 0

\* add_agent of the same agent on both simulations
ShuffleAddAgent ==
    /\ Len(agents) < Len(ShuffleCatalogue)
    /\ Install(AddAgent(SimNow, ShuffleCatalogue[Len(agents) + 1], ""))
    /\ twin' = AddAgent(twin, ShuffleCatalogue[Len(agents) + 1], "")
    /\ ret' = [op |-> "add_agent"]
    /\ UNCHANGED <<calls, nops>>

\* schedule_event of the same event on both simulations
ShuffleScheduleEvent ==
    /\ nops < MaxOps
    /\ \E event \in ShuffleEvents :
       \E in_ticks \in {0, 1} :
          /\ Install(ScheduleEvent(SimNow, event, in_ticks))
          /\ twin' = ScheduleEvent(twin, event, in_ticks)
    /\ ret' = [op |-> "schedule_event"]
    /\ nops' = nops + 1
    /\ UNCHANGED calls

NextShuffle ==
    \/ ShuffleAddAgent
    \/ ShuffleScheduleEvent
    \/ TwinTick

SpecShuffle == InitShuffle /\ [][NextShuffle]_vars

\* the names agents[i] has a relationship toward, in the registry ags
Partners(ags, i) == DOMAIN ags[i].relationships

\* C28: two runs of the same configuration whose shuffles come from
\* different seeds produce the same SimulationResult sequence (tick,
\* feedback, events), when every task uses the default progress function
\* and the event effects change emotions and world metrics only.
C28_ResultsIgnoreTheShuffle ==
    history = twin.history

\* C28 witness: after two ticks of four agents the two runs have paired some
\* agent with different partners, their emotions and world metrics differ,
\* an event has fired and a task has been completed.
C28_Witness ==
    /\ Len(history) >= 2
    /\ Len(agents) = 4
    /\ \E i \in 1..Len(agents) : Partners(agents, i) # Partners(twin.agents, i)
    /\ \E i \in 1..Len(agents) : agents[i].emotion # twin.agents[i].emotion
    /\ world.culture # twin.world.culture
    /\ \E n \in 1..Len(history) : history[n].events # <<>>
    /\ \E n \in 1..Len(history) :
          MsgCompleted("Community Garden") \in Reported(n, "Aurora")

(***************************************************************************)
(* The event log and the history                                           *)
(***************************************************************************)
\* the log entries the first n results of the history h account for: one per
\* description in their events lists, tagged with the tick of the result
RECURSIVE LogOf(_, _)
LogOf(h, n) ==
    IF n = 0 THEN <<>>
    ELSE LogOf(h, n - 1)
         \o [k \in 1..Len(h[n].events) |-> <<"Tick", h[n].tick, h[n].events[k]>>]

\* C29: the event log is, entry by entry and in order, the concatenation of
\* the events lists of the results in the history, each entry tagged with the
\* tick of the result that lists it; the tags never decrease.
C29_LogMatchesHistory ==
    /\ world.event_log = LogOf(history, Len(history))
    /\ \A k \in 1..(Len(world.event_log) - 1) :
          world.event_log[k][2] <= world.event_log[k + 1][2]

(***************************************************************************)
(* One pair, any traits                                                    *)
(***************************************************************************)
\* trait values in tenths: the two ends of [-1, 1] and two values inside
TraitLevels == {-10, 0, 4, 10}

\* an agent whose sociability, empathy and organization are s, e and o
Shaped(name, s, e, o) ==
    Customize(NewAgent(name, "XXXX"),
              [sociability |-> s, empathy |-> e, organization |-> o], <<>>, <<>>)

InitMeet ==
    /\ \E s1 \in TraitLevels : \E e1 \in TraitLevels : \E o1 \in TraitLevels :
       \E s2 \in TraitLevels : \E e2 \in TraitLevels : \E o2 \in TraitLevels :
          InitSim([NewSimulation(NewWorld(WorldOne \div 2, WorldOne \div 2, WorldOne \div 2),
                                 <<1>>, 0)
                   EXCEPT !.agents = <<Shaped("Ann", s1, e1, o1), Shaped("Ben", s2, e2, o2)>>])
    /\ twin = <<>>
    /\ ret = NoCall
    /\ calls = <<>>
    /\ nops = 0

\* simulation._handle_interaction(ann, ben)
MeetCall ==
    /\ nops < MaxOps
    /\ agents' = <<HandleInteraction(agents[1], agents[2]).a,
                   HandleInteraction(agents[1], agents[2]).b>>
    /\ ret' = [op |-> "_handle_interaction"]
    /\ nops' = nops + 1
    /\ UNCHANGED <<world, scheduled_events, history, seed, rng, twin, calls>>

NextMeet == MeetCall

SpecMeet == InitMeet /\ [][NextMeet]_vars

\* the relationship of agents[i] toward the agent called other
Toward(i, other) == agents[i].relationships[other]

\* the relationship of agents[i] toward other in the next state is within
\* 0.025 of the one now (closeness 0.1, trust 0.1 if there is none yet)
MovesLittle(i, other) ==
    /\ Abs(Toward(i, other).closeness' - Standing(agents[i], other).closeness) <= 250
    /\ Abs(Toward(i, other).trust' - Standing(agents[i], other).trust) <= 250

\* the relationship of agents[i] toward other as its first interaction leaves it
FirstImpression(i, other) ==
    /\ Toward(i, other).closeness \in 850..1250
    /\ Toward(i, other).trust \in 850..1250
    /\ Toward(i, other).sentiment = "rival"

\* C30: for traits in [-1, 1] the affinity of an interaction lies in
\* [-0.15, 0.25], so that the clamp leaves it as it is; one interaction moves
\* closeness and trust by at most 0.025; and a relationship created by its
\* first interaction is rival right after it.
C30_AffinityIsSmall ==
    /\ [](/\ RawAffinity(agents[1], agents[2]) \in -150..250
          /\ Affinity(agents[1], agents[2]) = RawAffinity(agents[1], agents[2])
          /\ nops = 1 => FirstImpression(1, "Ben") /\ FirstImpression(2, "Ann"))
    /\ [][MovesLittle(1, "Ben") /\ MovesLittle(2, "Ann")]_vars

\* C30 witness: two agents at opposite ends of all three traits have met
\* once: the affinity is -0.15 and each holds the other at closeness 0.085,
\* as a rival.
C30_Witness ==
    /\ nops = 1
    /\ RawAffinity(agents[1], agents[2]) = -150
    /\ Toward(1, "Ben").closeness = 850
    /\ Toward(2, "Ann").sentiment = "rival"

(***************************************************************************)
(* What Agent.tick leaves alone                                            *)
(***************************************************************************)
\* the resources named by the requirements of the agent's tasks
RequiredBy(agent) ==
    UNION {{agent.tasks[t].resources_required[k].resource :
               k \in 1..Len(agent.tasks[t].resources_required)} :
           t \in 1..Len(agent.tasks)}

\* the agent's tasks use the default progress function, its money and time
\* are present and not negative, its emotions are in [0, 1]
PlainAgent(agent) ==
    /\ \A t \in 1..Len(agent.tasks) : agent.tasks[t].progress_function = "none"
    /\ {"money", "time"} \subseteq DOMAIN agent.resources
    /\ agent.resources["money"] >= 0 /\ agent.resources["time"] >= 0
    /\ agent.emotion.happiness \in 0..EmoOne
    /\ agent.emotion.stress \in 0..EmoOne
    /\ agent.emotion.energy \in 0..EmoOne

\* what a task is, as opposed to how far it has got
TaskIdentity(task) ==
    <<task.name, task.required_progress, task.difficulty, task.progress_function,
      task.resources_required>>

\* after differs from before in nothing but happiness and stress, time, the
\* resources its tasks require, the task list and the tasks' progress, and
\* closeness, trust and sentiment of the relationships it already had
SameButForTick(before, after) ==
    /\ after.name = before.name
    /\ after.mbti_code = before.mbti_code
    /\ after.traits = before.traits
    /\ after.skills = before.skills
    /\ after.motivations = before.motivations
    /\ after.values = before.values
    /\ after.emotion.energy = before.emotion.energy
    /\ DOMAIN after.resources = DOMAIN before.resources
    /\ \A k \in (DOMAIN before.resources) \ ({"time"} \cup RequiredBy(before)) :
          after.resources[k] = before.resources[k]
    /\ DOMAIN after.relationships = DOMAIN before.relationships
    /\ \A o \in DOMAIN before.relationships :
          after.relationships[o].other = before.relationships[o].other
    /\ \A t \in 1..Len(after.tasks) :
          \E u \in 1..Len(before.tasks) :
             TaskIdentity(after.tasks[t]) = TaskIdentity(before.tasks[u])

\* C31: Agent.tick on an agent with default-progress tasks, money and time
\* present and not negative and emotions in [0, 1] changes only that agent's
\* happiness and stress, time, the resources its tasks require, its task
\* list and task progress and the values of its existing relationships; the
\* world, every other agent, the agent's traits, skills, energy and other
\* resources stay as they are, and no relationship is created or removed.
C31_TickFrame ==
    [][ret'.op = "agent_tick" =>
          \A i \in 1..Len(agents) :
             (agents[i].name = ret'.name /\ PlainAgent(agents[i])) =>
                /\ world' = world
                /\ Len(agents') = Len(agents)
                /\ \A j \in (1..Len(agents)) \ {i} : agents'[j] = agents[j]
                /\ SameButForTick(agents[i], agents'[i])]_vars

\* C31 witness: Dex, who has met another agent and has money that the task
\* paid in this tick does not name, has been ticked and has paid time for
\* Supply Chain; the relationship is still there.
C31_Witness ==
    /\ ret.op = "agent_tick"
    /\ ret.name = "Dex"
    /\ ~ret.raised
    /\ Len(agents) >= 2
    /\ \E i \in 1..Len(agents) :
          /\ agents[i].name = "Dex"
          /\ PlainAgent(agents[i])
          /\ DOMAIN agents[i].relationships # {}
    /\ \E k \in 1..Len(ret.value) :
          /\ ret.value[k].task_name = "Supply Chain"
          /\ ret.value[k].progress_delta > 0

=============================================================================
